---- MODULE Spec2Model ----
(***************************************************************************)
(* A model of the apollo chess engine core (crate under src/src): the      *)
(* Position with its bitboards and incremental Zobrist hash, move          *)
(* application, pseudolegal move generation, FEN parsing and rendering,    *)
(* and the iterative-deepening searcher.                                   *)
(*                                                                         *)
(* Representation:                                                         *)
(*   Square     0..63 (A1 = 0, H1 = 7, A8 = 56, H8 = 63); None is -1       *)
(*   Bitboard   the set of its squares                                     *)
(*   Color      0 = White, 1 = Black          (Color::as_index)            *)
(*   PieceKind  0..5 = Pawn..King             (PieceKind::as_index)        *)
(*   Move       the 16-bit packed integer of moves.rs                      *)
(*   u64 hash   the formal XOR of Zobrist table entries: the set of table  *)
(*              indices XORed in an odd number of times                    *)
(***************************************************************************)
EXTENDS Integers, Sequences, FiniteSets, TLC

VARIABLES pos, last, ply, panicked, fen, out, phase, srch

vars == <<pos, last, ply, panicked, fen, out, phase, srch>>

\* ------------------------------------------------------------------ bounds

\* Number of plies played from an initial position.
MaxPly == 2

\* ------------------------------------------------------------------- types

White == 0
Black == 1
Pawn == 0
Knight == 1
Bishop == 2
Rook == 3
Queen == 4
King == 5

None == -1
SQUARES == 0 .. 63
COLORS == {White, Black}
PIECE_KINDS == Pawn .. King

A1 == 0
C1 == 2
E1 == 4
G1 == 6
H1 == 7
A8 == 56
C8 == 58
E8 == 60
G8 == 62
H8 == 63

toggle(color) == IF color = White THEN Black ELSE White

Piece(kind, color) == [kind |-> kind, color |-> color]
NoPiece == [kind |-> None, color |-> None]

rank(sq) == sq \div 8
file(sq) == sq % 8
of(r, f) == r * 8 + f

\* Square::plus: the result is a Square only inside the board; outside it the
\* FromPrimitive unwrap panics.  Callers test OnBoard where the code can panic.
plus(sq, offset) == sq + offset
OnBoard(sq) == sq \in SQUARES

North == 0
NorthEast == 1
East == 2
SouthEast == 3
South == 4
SouthWest == 5
West == 6
NorthWest == 7
DIRECTIONS == North .. NorthWest

as_vector(dir) ==
  CASE dir = North -> 8
    [] dir = NorthEast -> 9
    [] dir = East -> 1
    [] dir = SouthEast -> -7
    [] dir = South -> -8
    [] dir = SouthWest -> -9
    [] dir = West -> -1
    [] dir = NorthWest -> 7

towards(sq, dir) == plus(sq, as_vector(dir))

\* CastleStatus bit flags, as a set of the flag values.
WHITE_KINGSIDE == 1
WHITE_QUEENSIDE == 2
BLACK_KINGSIDE == 4
BLACK_QUEENSIDE == 8
CastleNONE == {}

\* ------------------------------------------------------------------ bitboard

BB_RANK(r) == {sq \in SQUARES : rank(sq) = r}
BB_FILE(f) == {sq \in SQUARES : file(sq) = f}
BB_RANK_1 == BB_RANK(0)
BB_RANK_8 == BB_RANK(7)
BB_RANK_12 == BB_RANK(0) \cup BB_RANK(1)
BB_RANK_78 == BB_RANK(6) \cup BB_RANK(7)
BB_FILE_A == BB_FILE(0)
BB_FILE_H == BB_FILE(7)
BB_FILE_AB == BB_FILE(0) \cup BB_FILE(1)
BB_FILE_GH == BB_FILE(6) \cup BB_FILE(7)

bb_xor(a, b) == (a \ b) \cup (b \ a)

\* u64::trailing_zeros of a bitboard: 64 when it is empty.
trailing_zeros(b) == IF b = {} THEN 64 ELSE CHOOSE x \in b : \A y \in b : x <= y
\* (64 - leading_zeros).checked_sub(1).unwrap_or(64)
highest_or_64(b) == IF b = {} THEN 64 ELSE CHOOSE x \in b : \A y \in b : x >= y

\* --------------------------------------------------------------- attack tables

KingTable ==
  [sq \in SQUARES |->
     (IF sq \notin BB_RANK_8
        THEN {plus(sq, 8)}
             \cup (IF sq \notin BB_FILE_A THEN {plus(sq, 7)} ELSE {})
             \cup (IF sq \notin BB_FILE_H THEN {plus(sq, 9)} ELSE {})
        ELSE {})
     \cup
     (IF sq \notin BB_RANK_1
        THEN {plus(sq, -8)}
             \cup (IF sq \notin BB_FILE_A THEN {plus(sq, -9)} ELSE {})
             \cup (IF sq \notin BB_FILE_H THEN {plus(sq, -7)} ELSE {})
        ELSE {})
     \cup (IF sq \notin BB_FILE_A THEN {plus(sq, -1)} ELSE {})
     \cup (IF sq \notin BB_FILE_H THEN {plus(sq, 1)} ELSE {})]

PawnTable ==
  [sq \in SQUARES |->
     [color \in COLORS |->
        LET promo_rank == IF color = White THEN BB_RANK_8 ELSE BB_RANK_1
            up_left == IF color = White THEN 7 ELSE -9
            up_right == IF color = White THEN 9 ELSE -7
        IN IF sq \in promo_rank
             THEN {}
             ELSE (IF sq \notin BB_FILE_A THEN {plus(sq, up_left)} ELSE {})
                  \cup (IF sq \notin BB_FILE_H THEN {plus(sq, up_right)} ELSE {})]]

KnightTable ==
  [sq \in SQUARES |->
     (IF sq \notin BB_FILE_A /\ sq \notin BB_RANK_78 THEN {plus(sq, 15)} ELSE {})
     \cup (IF sq \notin BB_FILE_H /\ sq \notin BB_RANK_78 THEN {plus(sq, 17)} ELSE {})
     \cup (IF sq \notin BB_FILE_GH /\ sq \notin BB_RANK_8 THEN {plus(sq, 10)} ELSE {})
     \cup (IF sq \notin BB_FILE_GH /\ sq \notin BB_RANK_1 THEN {plus(sq, -6)} ELSE {})
     \cup (IF sq \notin BB_FILE_H /\ sq \notin BB_RANK_12 THEN {plus(sq, -15)} ELSE {})
     \cup (IF sq \notin BB_FILE_A /\ sq \notin BB_RANK_12 THEN {plus(sq, -17)} ELSE {})
     \cup (IF sq \notin BB_FILE_AB /\ sq \notin BB_RANK_1 THEN {plus(sq, -10)} ELSE {})
     \cup (IF sq \notin BB_FILE_AB /\ sq \notin BB_RANK_8 THEN {plus(sq, 6)} ELSE {})]

\* The board edge that ends a ray in each direction (RayTable::new).
ray_edge(dir) ==
  CASE dir = North -> BB_RANK_8
    [] dir = NorthEast -> BB_RANK_8 \cup BB_FILE_H
    [] dir = East -> BB_FILE_H
    [] dir = SouthEast -> BB_RANK_1 \cup BB_FILE_H
    [] dir = South -> BB_RANK_1
    [] dir = SouthWest -> BB_RANK_1 \cup BB_FILE_A
    [] dir = West -> BB_FILE_A
    [] dir = NorthWest -> BB_RANK_8 \cup BB_FILE_A

\* populate_dir: cast a ray from sq until the edge is reached.
RECURSIVE cast_ray(_, _)
cast_ray(cursor, dir) ==
  IF cursor \in ray_edge(dir)
    THEN {}
    ELSE LET next == towards(cursor, dir)
         IN {next} \cup cast_ray(next, dir)

\* 65 entries: entry 64 stays all zeros.
RayTable ==
  [sq \in 0 .. 64 |->
     [dir \in DIRECTIONS |-> IF sq = 64 THEN {} ELSE cast_ray(sq, dir)]]

positive_ray_attacks(sq, occupancy, dir) ==
  LET attacks == RayTable[sq][dir]
      blocking_square == trailing_zeros(attacks \cap occupancy)
  IN bb_xor(attacks, RayTable[blocking_square][dir])

negative_ray_attacks(sq, occupancy, dir) ==
  LET attacks == RayTable[sq][dir]
      blocking_square == highest_or_64(attacks \cap occupancy)
  IN bb_xor(attacks, RayTable[blocking_square][dir])

diagonal_attacks(sq, occupancy) ==
  positive_ray_attacks(sq, occupancy, NorthWest)
    \cup negative_ray_attacks(sq, occupancy, SouthEast)

antidiagonal_attacks(sq, occupancy) ==
  positive_ray_attacks(sq, occupancy, NorthEast)
    \cup negative_ray_attacks(sq, occupancy, SouthWest)

file_attacks(sq, occupancy) ==
  positive_ray_attacks(sq, occupancy, North)
    \cup negative_ray_attacks(sq, occupancy, South)

rank_attacks(sq, occupancy) ==
  positive_ray_attacks(sq, occupancy, East)
    \cup negative_ray_attacks(sq, occupancy, West)

pawn_attacks(sq, color) == PawnTable[sq][color]
knight_attacks(sq) == KnightTable[sq]
king_attacks(sq) == KingTable[sq]
bishop_attacks(sq, occupancy) ==
  diagonal_attacks(sq, occupancy) \cup antidiagonal_attacks(sq, occupancy)
rook_attacks(sq, occupancy) ==
  file_attacks(sq, occupancy) \cup rank_attacks(sq, occupancy)
queen_attacks(sq, occupancy) ==
  bishop_attacks(sq, occupancy) \cup rook_attacks(sq, occupancy)

\* Piece::attacks
piece_attacks(piece, sq, occupancy) ==
  CASE piece.kind = Pawn -> pawn_attacks(sq, piece.color)
    [] piece.kind = Knight -> knight_attacks(sq)
    [] piece.kind = Bishop -> bishop_attacks(sq, occupancy)
    [] piece.kind = Rook -> rook_attacks(sq, occupancy)
    [] piece.kind = Queen -> queen_attacks(sq, occupancy)
    [] piece.kind = King -> king_attacks(sq)

\* -------------------------------------------------------------------- moves
\* apollo's Move is a u16: 6 bits source, 6 bits destination, 4 attribute bits.

PROMO_BIT == 8
CAPTURE_BIT == 4
SPECIAL_0_BIT == 2
SPECIAL_1_BIT == 1

Move_quiet(source, dest) == source * 1024 + dest * 16
Move_capture(source, dest) == Move_quiet(source, dest) + CAPTURE_BIT
Move_en_passant(source, dest) == Move_capture(source, dest) + SPECIAL_1_BIT
Move_double_pawn_push(source, dest) == Move_quiet(source, dest) + SPECIAL_1_BIT
promo_bits(kind) ==
  CASE kind = Knight -> 0
    [] kind = Bishop -> 1
    [] kind = Rook -> 2
    [] kind = Queen -> 3
Move_promotion(source, dest, promoted) ==
  Move_quiet(source, dest) + PROMO_BIT + promo_bits(promoted)
Move_promotion_capture(source, dest, promoted) ==
  Move_promotion(source, dest, promoted) + CAPTURE_BIT
Move_kingside_castle(source, dest) == Move_quiet(source, dest) + SPECIAL_0_BIT
Move_queenside_castle(source, dest) ==
  Move_quiet(source, dest) + SPECIAL_0_BIT + SPECIAL_1_BIT

attr(mov) == mov % 16
source(mov) == mov \div 1024
destination(mov) == (mov \div 16) % 64
is_quiet(mov) == attr(mov) = 0
is_capture(mov) == (attr(mov) \div CAPTURE_BIT) % 2 = 1
is_en_passant(mov) == attr(mov) = 5
is_double_pawn_push(mov) == attr(mov) = 1
is_promotion(mov) == (attr(mov) \div PROMO_BIT) % 2 = 1
is_kingside_castle(mov) == attr(mov) = 2
is_queenside_castle(mov) == attr(mov) = 3
promotion_piece(mov) ==
  CASE attr(mov) % 4 = 0 -> Knight
    [] attr(mov) % 4 = 1 -> Bishop
    [] attr(mov) % 4 = 2 -> Rook
    [] attr(mov) % 4 = 3 -> Queen

\* The part of the Move type that this crate adds to moves.rs: the null move
\* (source = destination = A1, no attribute) and the castle test.
Move_null == Move_quiet(A1, A1)
is_null(mov) == mov = Move_null
is_castle(mov) == is_kingside_castle(mov) \/ is_queenside_castle(mov)

\* ------------------------------------------------------------------ zobrist
\* magic_hashes has 781 entries; a hash is modelled by the set of entries that
\* are XORed into it an odd number of times.

SIDE_TO_MOVE_INDEX == 768
CASTLING_RIGHTS_INDEX == 769
EN_PASSANT_INDEX == 773

hash_xor(hash, entry) ==
  IF entry \in hash THEN hash \ {entry} ELSE hash \cup {entry}

square_hash(kind, color, square) ==
  12 * square + (IF color = White THEN 0 ELSE 6) + kind

en_passant_hash(square) == file(square) + EN_PASSANT_INDEX
castle_hash(offset) == offset + CASTLING_RIGHTS_INDEX

modify_piece(hash, square, piece) ==
  hash_xor(hash, square_hash(piece.kind, piece.color, square))

modify_side_to_move(hash) == hash_xor(hash, SIDE_TO_MOVE_INDEX)

modify_kingside_castle(hash, color) ==
  hash_xor(hash, castle_hash(IF color = White THEN 0 ELSE 2))

modify_queenside_castle(hash, color) ==
  hash_xor(hash, castle_hash(IF color = White THEN 1 ELSE 3))

modify_en_passant(hash, old, new) ==
  IF old # None /\ new # None
    THEN hash_xor(hash_xor(hash, en_passant_hash(old)), en_passant_hash(new))
    ELSE IF old # None THEN hash_xor(hash, en_passant_hash(old))
    ELSE IF new # None THEN hash_xor(hash, en_passant_hash(new))
    ELSE hash

\* ----------------------------------------------------------------- position

Position_new ==
  [boards_by_piece |-> [i \in 0 .. 11 |-> {}],
   boards_by_color |-> [c \in COLORS |-> {}],
   en_passant_square |-> None,
   halfmove_clock |-> 0,
   fullmove_clock |-> 0,
   side_to_move |-> White,
   castle_status |-> CastleNONE,
   zobrist_hash |-> {}]

can_castle_kingside(p, color) ==
  IF color = White
    THEN WHITE_KINGSIDE \in p.castle_status
    ELSE BLACK_KINGSIDE \in p.castle_status

can_castle_queenside(p, color) ==
  IF color = White
    THEN WHITE_QUEENSIDE \in p.castle_status
    ELSE BLACK_QUEENSIDE \in p.castle_status

pieces(p, color) == p.boards_by_color[color]

pieces_of_kind(p, color, kind) ==
  p.boards_by_piece[(IF color = White THEN 0 ELSE 6) + kind]

pawns(p, color) == pieces_of_kind(p, color, Pawn)
knights(p, color) == pieces_of_kind(p, color, Knight)
bishops(p, color) == pieces_of_kind(p, color, Bishop)
rooks(p, color) == pieces_of_kind(p, color, Rook)
queens(p, color) == pieces_of_kind(p, color, Queen)
kings(p, color) == pieces_of_kind(p, color, King)

\* piece_at: the color boards decide the color (White first), then the first
\* piece kind whose board holds the square.  The unreachable!() at the end is
\* the NoPiece result here; it needs a color board that no piece board backs.
piece_at(p, square) ==
  IF square \notin p.boards_by_color[White] /\ square \notin p.boards_by_color[Black]
    THEN NoPiece
    ELSE LET color == IF square \in p.boards_by_color[White] THEN White ELSE Black
             board_offset == IF color = White THEN 0 ELSE 6
             found == {k \in PIECE_KINDS : square \in p.boards_by_piece[k + board_offset]}
         IN IF found = {} THEN NoPiece ELSE Piece(CHOOSE k \in found : \A j \in found : k <= j, color)

\* Result<(), ()> of add_piece and remove_piece, with the position they leave.
Res(p, ok) == [pos |-> p, ok |-> ok]

\* Sequencing of fallible steps (the ? operator, expect and unwrap): the next
\* step runs on the result of the previous one only when that one succeeded.
and_then(r, Op(_)) == IF r.ok THEN Op(r) ELSE r

\* add_piece without the occupied-square test.
add_piece_unchecked(p, square, piece) ==
  LET offset == IF piece.color = White THEN 0 ELSE 6
  IN Res([p EXCEPT !.boards_by_color[piece.color] = @ \cup {square},
                   !.boards_by_piece[piece.kind + offset] = @ \cup {square},
                   !.zobrist_hash = modify_piece(@, square, piece)],
         TRUE)

add_piece(p, square, piece) ==
  IF piece_at(p, square) # NoPiece
    THEN Res(p, FALSE)
    ELSE LET offset == IF piece.color = White THEN 0 ELSE 6
         IN Res([p EXCEPT !.boards_by_color[piece.color] = @ \cup {square},
                          !.boards_by_piece[piece.kind + offset] = @ \cup {square},
                          !.zobrist_hash = modify_piece(@, square, piece)],
                TRUE)

remove_piece(p, square) ==
  LET existing_piece == piece_at(p, square)
  IN IF existing_piece = NoPiece
       THEN Res(p, FALSE)
       ELSE LET offset == IF existing_piece.color = White THEN 0 ELSE 6
            IN Res([p EXCEPT !.boards_by_color[existing_piece.color] = @ \ {square},
                             !.boards_by_piece[existing_piece.kind + offset] = @ \ {square},
                             !.zobrist_hash = modify_piece(@, square, existing_piece)],
                   TRUE)

kingside_rook(color) == IF color = White THEN H1 ELSE H8
queenside_rook(color) == IF color = White THEN A1 ELSE A8
kingside_castle_mask(color) == IF color = White THEN WHITE_KINGSIDE ELSE BLACK_KINGSIDE
queenside_castle_mask(color) == IF color = White THEN WHITE_QUEENSIDE ELSE BLACK_QUEENSIDE
castle_mask(color) ==
  IF color = White
    THEN {WHITE_KINGSIDE, WHITE_QUEENSIDE}
    ELSE {BLACK_KINGSIDE, BLACK_QUEENSIDE}

\* zobrist::hash, the hash from scratch.  The three nested loops XOR the entry
\* of every (square, color, kind) whether or not the piece is on the board, and
\* the fourth castling entry is guarded by Black's kingside right.
zobrist_hash_of(p) ==
  LET h0 == {square_hash(kind, color, square) :
               kind \in PIECE_KINDS, color \in COLORS, square \in SQUARES}
      h1 == IF p.side_to_move = Black THEN hash_xor(h0, SIDE_TO_MOVE_INDEX) ELSE h0
      h2 == IF can_castle_kingside(p, White) THEN hash_xor(h1, castle_hash(0)) ELSE h1
      h3 == IF can_castle_queenside(p, White) THEN hash_xor(h2, castle_hash(1)) ELSE h2
      h4 == IF can_castle_kingside(p, Black) THEN hash_xor(h3, castle_hash(2)) ELSE h3
      h5 == IF can_castle_kingside(p, Black) THEN hash_xor(h4, castle_hash(3)) ELSE h4
  IN IF p.en_passant_square # None
       THEN hash_xor(h5, en_passant_hash(p.en_passant_square))
       ELSE h5

\* --------------------------------------------------------------- apply_move
\* apply_move mutates the Position in place and panics (expect/unwrap) on a
\* move that does not fit it.  Each step below returns Res(position, ok): ok is
\* FALSE when the step panicked, and the position is what the panic left behind.

\* The null-move quick out with the halfmove clock counted as its comment says.
apply_null_move_counts_halfmove(p) ==
  LET side == toggle(p.side_to_move)
  IN [p EXCEPT !.en_passant_square = None,
               !.side_to_move = side,
               !.zobrist_hash = modify_side_to_move(@),
               !.halfmove_clock = @ + 1,
               !.fullmove_clock = IF side = White THEN @ + 1 ELSE @]

\* The null-move quick out.
apply_null_move(p) ==
  LET side == toggle(p.side_to_move)
  IN [p EXCEPT !.en_passant_square = None,
               !.side_to_move = side,
               !.zobrist_hash = modify_side_to_move(@),
               !.fullmove_clock = IF side = White THEN @ + 1 ELSE @]

\* capture_target_square without the en-passant case.
capture_target_square_destination(p, mov) == destination(mov)

\* The square the captured piece stands on; None when the code panics first
\* (an en-passant move without an en-passant square, or off the board).
capture_target_square(p, mov) ==
  IF ~is_en_passant(mov)
    THEN destination(mov)
    ELSE IF p.en_passant_square = None
      THEN None
      ELSE LET ep_dir == IF p.side_to_move = White THEN South ELSE North
               target == towards(p.en_passant_square, ep_dir)
           IN IF OnBoard(target) THEN target ELSE None

\* invalidate_castle_on_capture with the right toggled (^=) instead of cleared.
invalidate_castle_on_capture_toggle(p, target_square) ==
  LET them == toggle(p.side_to_move)
  IN IF target_square = kingside_rook(them)
       THEN [p EXCEPT !.castle_status = bb_xor(@, {kingside_castle_mask(them)}),
                      !.zobrist_hash = modify_kingside_castle(@, them)]
       ELSE IF target_square = queenside_rook(them)
         THEN [p EXCEPT !.castle_status = bb_xor(@, {queenside_castle_mask(them)}),
                        !.zobrist_hash = modify_queenside_castle(@, them)]
         ELSE p

\* A capture on a rook start square takes the castle away from the other player.
invalidate_castle_on_capture(p, target_square) ==
  LET them == toggle(p.side_to_move)
  IN IF target_square = kingside_rook(them)
       THEN [p EXCEPT !.castle_status = @ \ {kingside_castle_mask(them)},
                      !.zobrist_hash = modify_kingside_castle(@, them)]
       ELSE IF target_square = queenside_rook(them)
         THEN [p EXCEPT !.castle_status = @ \ {queenside_castle_mask(them)},
                        !.zobrist_hash = modify_queenside_castle(@, them)]
         ELSE p

apply_capture(p, mov) ==
  IF ~is_capture(mov)
    THEN Res(p, TRUE)
    ELSE LET target_square == capture_target_square(p, mov)
         IN IF target_square = None
              THEN Res(p, FALSE)
              ELSE LET removed == remove_piece(p, target_square)
                   IN IF ~removed.ok
                        THEN Res(p, FALSE)
                        ELSE Res(invalidate_castle_on_capture(removed.pos, target_square),
                                 TRUE)

\* The rook's half of a castle; the king is moved like any other piece.
apply_castle_rook(p, mov) ==
  IF ~is_castle(mov)
    THEN Res(p, TRUE)
    ELSE LET kingside == is_kingside_castle(mov)
             post_castle_dir == IF kingside THEN West ELSE East
             pre_castle_dir == IF kingside THEN East ELSE West
             num_squares == IF kingside THEN 1 ELSE 2
             new_rook_square == towards(destination(mov), post_castle_dir)
             rook_square == destination(mov) + num_squares * as_vector(pre_castle_dir)
         IN IF ~OnBoard(new_rook_square) \/ ~OnBoard(rook_square)
              THEN Res(p, FALSE)
              ELSE LET rook == piece_at(p, rook_square)
                   IN IF rook = NoPiece
                        THEN Res(p, FALSE)
                        ELSE LET removed == remove_piece(p, rook_square)
                                 added == add_piece(removed.pos, new_rook_square, rook)
                             IN added

\* Lift the moving piece off the source and put it, or the promoted piece, on
\* the destination.
apply_relocate(p, mov, moving_piece) ==
  LET piece_to_add == IF is_promotion(mov)
                        THEN Piece(promotion_piece(mov), p.side_to_move)
                        ELSE moving_piece
      removed == remove_piece(p, source(mov))
  IN IF ~removed.ok
       THEN Res(p, FALSE)
       ELSE add_piece(removed.pos, destination(mov), piece_to_add)

\* apply_en_passant_square without the else branch that clears the square.
apply_en_passant_square_no_clear(p, mov) ==
  IF is_double_pawn_push(mov)
    THEN LET ep_dir == IF p.side_to_move = White THEN South ELSE North
             ep_square == towards(destination(mov), ep_dir)
         IN IF ~OnBoard(ep_square)
              THEN Res(p, FALSE)
              ELSE Res([p EXCEPT !.zobrist_hash =
                                   modify_en_passant(@, p.en_passant_square, ep_square),
                                 !.en_passant_square = ep_square],
                       TRUE)
    ELSE Res(p, TRUE)

\* A double pawn push sets the en-passant square, every other move clears it.
apply_en_passant_square(p, mov) ==
  IF is_double_pawn_push(mov)
    THEN LET ep_dir == IF p.side_to_move = White THEN South ELSE North
             ep_square == towards(destination(mov), ep_dir)
         IN IF ~OnBoard(ep_square)
              THEN Res(p, FALSE)
              ELSE Res([p EXCEPT !.zobrist_hash =
                                   modify_en_passant(@, p.en_passant_square, ep_square),
                                 !.en_passant_square = ep_square],
                       TRUE)
    ELSE Res([p EXCEPT !.zobrist_hash = modify_en_passant(@, p.en_passant_square, None),
                       !.en_passant_square = None],
             TRUE)

\* apply_castle_status with a rook move clearing both rights, as a king move does.
apply_castle_status_rook_clears_both(p, mov, moving_piece) ==
  LET us == p.side_to_move
  IN IF moving_piece.kind = Rook \/ moving_piece.kind = King
       THEN [p EXCEPT !.castle_status = @ \ castle_mask(us),
                      !.zobrist_hash =
                        modify_kingside_castle(modify_queenside_castle(@, us), us)]
       ELSE p

\* apply_castle_status without the king branch: only a rook move from its
\* start square takes a right away.
apply_castle_status_king_keeps_rights(p, mov, moving_piece) ==
  LET us == p.side_to_move
  IN IF moving_piece.kind = Rook
       THEN IF can_castle_queenside(p, us) /\ source(mov) = queenside_rook(us)
              THEN [p EXCEPT !.castle_status = @ \ {queenside_castle_mask(us)},
                             !.zobrist_hash = modify_queenside_castle(@, us)]
              ELSE IF can_castle_kingside(p, us) /\ source(mov) = kingside_rook(us)
                THEN [p EXCEPT !.castle_status = @ \ {kingside_castle_mask(us)},
                               !.zobrist_hash = modify_kingside_castle(@, us)]
                ELSE p
       ELSE p

\* The mover's own castle rights after a rook or king move.
apply_castle_status(p, mov, moving_piece) ==
  LET us == p.side_to_move
  IN IF moving_piece.kind = Rook
       THEN IF can_castle_queenside(p, us) /\ source(mov) = queenside_rook(us)
              THEN [p EXCEPT !.castle_status = @ \ {queenside_castle_mask(us)},
                             !.zobrist_hash = modify_queenside_castle(@, us)]
              ELSE IF can_castle_kingside(p, us) /\ source(mov) = kingside_rook(us)
                THEN [p EXCEPT !.castle_status = @ \ {kingside_castle_mask(us)},
                               !.zobrist_hash = modify_kingside_castle(@, us)]
                ELSE p
       ELSE IF moving_piece.kind = King
         THEN [p EXCEPT !.castle_status = @ \ castle_mask(us),
                        !.zobrist_hash =
                          modify_kingside_castle(modify_queenside_castle(@, us), us)]
         ELSE p

\* apply_side_and_clocks with the halfmove clock reset by captures alone.
apply_side_and_clocks_capture_only(p, mov, moving_piece) ==
  LET side == toggle(p.side_to_move)
  IN [p EXCEPT !.side_to_move = side,
               !.zobrist_hash = modify_side_to_move(@),
               !.halfmove_clock = IF is_capture(mov) THEN 0 ELSE @ + 1,
               !.fullmove_clock = IF side = White THEN @ + 1 ELSE @]

\* Side to move and the two clocks.
apply_side_and_clocks(p, mov, moving_piece) ==
  LET side == toggle(p.side_to_move)
  IN [p EXCEPT !.side_to_move = side,
               !.zobrist_hash = modify_side_to_move(@),
               !.halfmove_clock =
                 IF is_capture(mov) \/ moving_piece.kind = Pawn THEN 0 ELSE @ + 1,
               !.fullmove_clock = IF side = White THEN @ + 1 ELSE @]

apply_move(p, mov) ==
  IF is_null(mov)
    THEN Res(apply_null_move(p), TRUE)
    ELSE LET moving_piece == piece_at(p, source(mov))
         IN IF moving_piece = NoPiece
              THEN Res(p, FALSE)
              ELSE and_then(and_then(and_then(and_then(
                     apply_capture(p, mov),
                     LAMBDA s : apply_castle_rook(s.pos, mov)),
                     LAMBDA s : apply_relocate(s.pos, mov, moving_piece)),
                     LAMBDA s : apply_en_passant_square(s.pos, mov)),
                     LAMBDA s : Res(apply_side_and_clocks(
                                      apply_castle_status(s.pos, mov, moving_piece),
                                      mov, moving_piece),
                                    TRUE))

\* ------------------------------------------------------- check and legality

squares_attacking(p, to_move, target) ==
  LET occupancy == pieces(p, White) \cup pieces(p, Black)
      sliding_pieces == queens(p, to_move) \cup rooks(p, to_move) \cup bishops(p, to_move)
      sliding_attacks == queen_attacks(target, occupancy) \cap sliding_pieces
      sliders == {attacker \in sliding_attacks :
                    target \in piece_attacks(piece_at(p, attacker), attacker, occupancy)}
      knight_hits == knight_attacks(target) \cap knights(p, to_move)
      cant_be_attacked_by_pawns_rank == IF to_move = White THEN 0 ELSE 7
      pawn_hits ==
        IF rank(target) # cant_be_attacked_by_pawns_rank
          THEN LET pawn_attack_rank ==
                     IF to_move = White
                       THEN rank(towards(target, South))
                       ELSE rank(towards(target, North))
               IN {pawn \in pawns(p, to_move) \cap BB_RANK(pawn_attack_rank) :
                     target \in pawn_attacks(pawn, to_move)}
          ELSE {}
      king_hits == {king \in kings(p, to_move) : target \in king_attacks(king)}
  IN sliders \cup knight_hits \cup pawn_hits \cup king_hits

is_check(p, color) ==
  \E king \in kings(p, color) : squares_attacking(p, toggle(color), king) # {}

\* ------------------------------------------------------------ move generator
\* generate_moves fills a MoveVec; the model keeps the set of the moves pushed.

PROMOTION_KINDS == {Knight, Bishop, Rook, Queen}

generate_pawn_moves(p) ==
  LET color == p.side_to_move
      enemy_pieces == pieces(p, toggle(color))
      allied_pieces == pieces(p, color)
      all == enemy_pieces \cup allied_pieces
      start_rank == IF color = White THEN 1 ELSE 6
      promo_rank == IF color = White THEN 7 ELSE 0
      pawn_dir == IF color = White THEN North ELSE South
      of_pawn(pawn) ==
        LET target == towards(pawn, pawn_dir)
            pushes ==
              IF target \notin all
                THEN IF rank(target) = promo_rank
                       THEN {Move_promotion(pawn, target, k) : k \in PROMOTION_KINDS}
                       ELSE {Move_quiet(pawn, target)}
                ELSE {}
            double_pushes ==
              IF rank(pawn) = start_rank
                THEN LET two_push_target == towards(target, pawn_dir)
                     IN IF target \notin all /\ two_push_target \notin all
                          THEN {Move_double_pawn_push(pawn, two_push_target)}
                          ELSE {}
                ELSE {}
            captures ==
              UNION {IF t \in enemy_pieces
                       THEN IF rank(t) = promo_rank
                              THEN {Move_promotion_capture(pawn, t, k) : k \in PROMOTION_KINDS}
                              ELSE {Move_capture(pawn, t)}
                       ELSE {} : t \in pawn_attacks(pawn, color)}
            en_passants ==
              IF p.en_passant_square # None
                   /\ p.en_passant_square \in pawn_attacks(pawn, color)
                THEN {Move_en_passant(pawn, p.en_passant_square)}
                ELSE {}
        IN pushes \cup double_pushes \cup captures \cup en_passants
  IN UNION {of_pawn(pawn) : pawn \in pawns(p, color)}

\* The capture-or-quiet loop shared by knights, sliders and the king.
moves_to_targets(p, piece, targets) ==
  LET color == p.side_to_move
      enemy_pieces == pieces(p, toggle(color))
      allied_pieces == pieces(p, color)
  IN {Move_capture(piece, t) : t \in targets \cap enemy_pieces}
       \cup {Move_quiet(piece, t) : t \in (targets \ enemy_pieces) \ allied_pieces}

generate_knight_moves(p) ==
  UNION {moves_to_targets(p, knight, knight_attacks(knight)) :
           knight \in knights(p, p.side_to_move)}

generate_sliding_moves(p) ==
  LET color == p.side_to_move
      all == pieces(p, White) \cup pieces(p, Black)
  IN UNION {moves_to_targets(p, b, bishop_attacks(b, all)) : b \in bishops(p, color)}
       \cup UNION {moves_to_targets(p, r, rook_attacks(r, all)) : r \in rooks(p, color)}
       \cup UNION {moves_to_targets(p, q, queen_attacks(q, all)) : q \in queens(p, color)}

\* kingside_castle_moves without the attack test on the square the king crosses.
kingside_castle_moves_through_check(p, king) ==
  LET color == p.side_to_move
      all == pieces(p, White) \cup pieces(p, Black)
      starting_rook == IF color = White THEN H1 ELSE H8
      piece == piece_at(p, starting_rook)
      one == towards(king, East)
      two == towards(one, East)
  IN IF can_castle_kingside(p, color)
          /\ piece # NoPiece /\ piece.kind = Rook /\ piece.color = color
          /\ one \notin all /\ two \notin all
          /\ squares_attacking(p, toggle(color), two) = {}
       THEN {Move_kingside_castle(king, two)}
       ELSE {}

kingside_castle_moves(p, king) ==
  LET color == p.side_to_move
      all == pieces(p, White) \cup pieces(p, Black)
      starting_rook == IF color = White THEN H1 ELSE H8
      piece == piece_at(p, starting_rook)
      one == towards(king, East)
      two == towards(one, East)
  IN IF can_castle_kingside(p, color)
          /\ piece # NoPiece /\ piece.kind = Rook /\ piece.color = color
          /\ one \notin all /\ two \notin all
          /\ squares_attacking(p, toggle(color), one) = {}
          /\ squares_attacking(p, toggle(color), two) = {}
       THEN {Move_kingside_castle(king, two)}
       ELSE {}

queenside_castle_moves(p, king) ==
  LET color == p.side_to_move
      all == pieces(p, White) \cup pieces(p, Black)
      starting_rook == IF color = White THEN A1 ELSE A8
      piece == piece_at(p, starting_rook)
      one == towards(king, West)
      two == towards(one, West)
      three == towards(two, West)
  IN IF can_castle_queenside(p, color)
          /\ piece # NoPiece /\ piece.kind = Rook /\ piece.color = color
          /\ one \notin all /\ two \notin all /\ three \notin all
          /\ squares_attacking(p, toggle(color), one) = {}
          /\ squares_attacking(p, toggle(color), two) = {}
       THEN {Move_queenside_castle(king, two)}
       ELSE {}

generate_king_moves(p) ==
  LET color == p.side_to_move
  IN UNION {moves_to_targets(p, king, king_attacks(king))
              \cup (IF is_check(p, color)
                      THEN {}
                      ELSE kingside_castle_moves(p, king)
                             \cup queenside_castle_moves(p, king)) :
              king \in kings(p, color)}

generate_moves(p) ==
  generate_pawn_moves(p) \cup generate_knight_moves(p)
    \cup generate_sliding_moves(p) \cup generate_king_moves(p)

is_legal_given_pseudolegal(p, mov) ==
  \E applied \in {apply_move(p, mov)} :
    applied.ok /\ ~is_check(applied.pos, p.side_to_move)

is_legal(p, mov) ==
  mov \in generate_moves(p) /\ is_legal_given_pseudolegal(p, mov)

legal_moves(p) == {mov \in generate_moves(p) : is_legal_given_pseudolegal(p, mov)}

\* ----------------------------------------------------------------------- FEN
\* A FEN string is the sequence of its characters, each a one-character string.

DIGITS == <<"0", "1", "2", "3", "4", "5", "6", "7", "8", "9">>
is_digit(c) == \E i \in 1 .. 10 : DIGITS[i] = c
digit_value(c) == (CHOOSE i \in 1 .. 10 : DIGITS[i] = c) - 1

FILE_CHARS == <<"a", "b", "c", "d", "e", "f", "g", "h">>
RANK_CHARS == <<"1", "2", "3", "4", "5", "6", "7", "8">>
\* File::try_from and Rank::try_from: None when the character is no file or rank.
File_try_from(c) ==
  IF \E i \in 1 .. 8 : FILE_CHARS[i] = c
    THEN (CHOOSE i \in 1 .. 8 : FILE_CHARS[i] = c) - 1
    ELSE None
Rank_try_from(c) ==
  IF \E i \in 1 .. 8 : RANK_CHARS[i] = c
    THEN (CHOOSE i \in 1 .. 8 : RANK_CHARS[i] = c) - 1
    ELSE None

WHITE_PIECE_CHARS == <<"P", "N", "B", "R", "Q", "K">>
BLACK_PIECE_CHARS == <<"p", "n", "b", "r", "q", "k">>
\* Piece::try_from
Piece_try_from(c) ==
  IF \E i \in 1 .. 6 : WHITE_PIECE_CHARS[i] = c
    THEN Piece((CHOOSE i \in 1 .. 6 : WHITE_PIECE_CHARS[i] = c) - 1, White)
    ELSE IF \E i \in 1 .. 6 : BLACK_PIECE_CHARS[i] = c
      THEN Piece((CHOOSE i \in 1 .. 6 : BLACK_PIECE_CHARS[i] = c) - 1, Black)
      ELSE NoPiece
\* Display for Piece
Piece_char(piece) ==
  IF piece.color = White
    THEN WHITE_PIECE_CHARS[piece.kind + 1]
    ELSE BLACK_PIECE_CHARS[piece.kind + 1]

\* The parser's stream: the text and the index of the next character.
peek(text, i) == IF i <= Len(text) THEN text[i] ELSE "END"

\* A parse step's result: ok, the next index, the position so far, the error.
Parsed(i, p) == [ok |-> TRUE, i |-> i, pos |-> p, err |-> "none"]
Failed(i, p, err) == [ok |-> FALSE, i |-> i, pos |-> p, err |-> err]

\* eat: the next character must be the expected one.
eat(text, i, p, expected) ==
  IF i > Len(text) THEN Failed(i, p, "UnexpectedEnd")
  ELSE IF text[i] = expected THEN Parsed(i + 1, p)
  ELSE Failed(i + 1, p, "UnexpectedChar")

\* The inner while loop of from_fen for one rank, from the given file on.
RECURSIVE eat_rank(_, _, _, _, _)
eat_rank(text, i, p, r, f) ==
  IF f > 7
    THEN Parsed(i, p)
    ELSE LET c == peek(text, i)
         IN IF c = "END" THEN Failed(i, p, "UnexpectedEnd")
            ELSE IF is_digit(c)
              THEN IF digit_value(c) < 1 \/ digit_value(c) > 8
                     THEN Failed(i, p, "InvalidDigit")
                     ELSE IF f + digit_value(c) > 8
                       THEN Failed(i, p, "FileDoesNotSumToEight")
                       ELSE eat_rank(text, i + 1, p, r, f + digit_value(c))
              ELSE LET piece == Piece_try_from(c)
                   IN IF piece = NoPiece
                        THEN Failed(i, p, "UnknownPiece")
                        ELSE eat_rank(text, i + 1, add_piece(p, of(r, f), piece).pos,
                                      r, f + 1)

\* The outer loop: ranks eight down to one, separated by '/'.
RECURSIVE eat_board(_, _, _, _)
eat_board(text, i, p, r) ==
  and_then(eat_rank(text, i, p, r, 0),
           LAMBDA row :
             IF r = 0
               THEN row
               ELSE and_then(eat(text, row.i, row.pos, "/"),
                             LAMBDA slash : eat_board(text, slash.i, slash.pos, r - 1)))

eat_side_to_move(text, i, p) ==
  LET c == peek(text, i)
  IN IF c = "END" THEN Failed(i, p, "UnexpectedEnd")
     ELSE IF c = "w" THEN Parsed(i + 1, [p EXCEPT !.side_to_move = White])
     ELSE IF c = "b" THEN Parsed(i + 1, [p EXCEPT !.side_to_move = Black])
     ELSE Failed(i, p, "InvalidSideToMove")

\* The for _ in 0..4 loop of eat_castle_status, with n iterations left.
RECURSIVE eat_castle_flags(_, _, _, _)
eat_castle_flags(text, i, p, n) ==
  IF n = 0
    THEN Parsed(i, p)
    ELSE LET c == peek(text, i)
         IN IF c = "END" THEN Failed(i, p, "UnexpectedEnd")
            ELSE IF c = " " THEN Parsed(i, p)
            ELSE IF c \notin {"K", "k", "Q", "q"} THEN Failed(i, p, "InvalidCastle")
            ELSE LET flag == CASE c = "K" -> WHITE_KINGSIDE
                               [] c = "k" -> BLACK_KINGSIDE
                               [] c = "Q" -> WHITE_QUEENSIDE
                               [] c = "q" -> BLACK_QUEENSIDE
                 IN eat_castle_flags(text, i + 1,
                                     [p EXCEPT !.castle_status = @ \cup {flag}], n - 1)

eat_castle_status(text, i, p) ==
  LET c == peek(text, i)
  IN IF c = "END" THEN Failed(i, p, "UnexpectedEnd")
     ELSE IF c = "-" THEN Parsed(i + 1, [p EXCEPT !.castle_status = CastleNONE])
     ELSE eat_castle_flags(text, i, [p EXCEPT !.castle_status = CastleNONE], 4)

eat_en_passant(text, i, p) ==
  LET c == peek(text, i)
  IN IF c = "END" THEN Failed(i, p, "UnexpectedEnd")
     ELSE IF c = "-" THEN Parsed(i + 1, [p EXCEPT !.en_passant_square = None])
     ELSE IF File_try_from(c) = None THEN Failed(i, p, "InvalidEnPassant")
     ELSE LET rank_c == peek(text, i + 1)
          IN IF rank_c = "END" THEN Failed(i + 1, p, "UnexpectedEnd")
             ELSE IF Rank_try_from(rank_c) = None THEN Failed(i + 1, p, "InvalidEnPassant")
             ELSE Parsed(i + 2,
                         [p EXCEPT !.en_passant_square =
                                     of(Rank_try_from(rank_c), File_try_from(c))])

\* str::parse::<u32> of a run of decimal digits.  The model's clocks have at most
\* nine digits, so the u32 range check never fails on them; a longer run is
\* reported as out of range.
RECURSIVE parse_u32(_)
parse_u32(buf) ==
  IF Len(buf) = 0 THEN 0
  ELSE parse_u32(SubSeq(buf, 1, Len(buf) - 1)) * 10 + digit_value(buf[Len(buf)])

\* The index after the run of digits that starts at i.
RECURSIVE digits_end(_, _)
digits_end(text, i) ==
  IF i <= Len(text) /\ is_digit(text[i]) THEN digits_end(text, i + 1) ELSE i

eat_halfmove(text, i, p) ==
  LET j == digits_end(text, i)
      buf == SubSeq(text, i, j - 1)
  IN IF j > Len(text) THEN Failed(j, p, "UnexpectedEnd")
     ELSE IF Len(buf) = 0 THEN Failed(j, p, "EmptyHalfmove")
     ELSE IF Len(buf) > 9 THEN Failed(j, p, "InvalidHalfmove")
     ELSE Parsed(j, [p EXCEPT !.halfmove_clock = parse_u32(buf)])

\* eat_fullmove drains the iterator: it stops at the first non-digit and
\* ignores whatever follows.
eat_fullmove(text, i, p) ==
  LET j == digits_end(text, i)
      buf == SubSeq(text, i, j - 1)
  IN IF Len(buf) = 0 THEN Failed(j, p, "EmptyFullmove")
     ELSE IF Len(buf) > 9 THEN Failed(j, p, "InvalidFullmove")
     ELSE Parsed(Len(text) + 1, [p EXCEPT !.fullmove_clock = parse_u32(buf)])

from_fen(text) ==
  and_then(and_then(and_then(and_then(and_then(and_then(
  and_then(and_then(and_then(and_then(and_then(
    eat_board(text, 1, Position_new, 7),
    LAMBDA r : eat(text, r.i, r.pos, " ")),
    LAMBDA r : eat_side_to_move(text, r.i, r.pos)),
    LAMBDA r : eat(text, r.i, r.pos, " ")),
    LAMBDA r : eat_castle_status(text, r.i, r.pos)),
    LAMBDA r : eat(text, r.i, r.pos, " ")),
    LAMBDA r : eat_en_passant(text, r.i, r.pos)),
    LAMBDA r : eat(text, r.i, r.pos, " ")),
    LAMBDA r : eat_halfmove(text, r.i, r.pos)),
    LAMBDA r : eat(text, r.i, r.pos, " ")),
    LAMBDA r : eat_fullmove(text, r.i, r.pos)),
    LAMBDA r : Parsed(r.i, [r.pos EXCEPT !.zobrist_hash = zobrist_hash_of(r.pos)]))

\* Display of a u32: its decimal digits.
RECURSIVE u32_to_chars(_)
u32_to_chars(n) ==
  IF n < 10 THEN <<DIGITS[n + 1]>>
  ELSE Append(u32_to_chars(n \div 10), DIGITS[(n % 10) + 1])

\* The files of one rank from file f on, with the run of empty squares so far.
RECURSIVE rank_as_fen(_, _, _, _)
rank_as_fen(p, r, f, empty_squares) ==
  IF f > 7
    THEN IF empty_squares # 0 THEN u32_to_chars(empty_squares) ELSE <<>>
    ELSE LET piece == piece_at(p, of(r, f))
         IN IF piece # NoPiece
              THEN (IF empty_squares # 0 THEN u32_to_chars(empty_squares) ELSE <<>>)
                     \o <<Piece_char(piece)>> \o rank_as_fen(p, r, f + 1, 0)
              ELSE rank_as_fen(p, r, f + 1, empty_squares + 1)

RECURSIVE board_as_fen(_, _)
board_as_fen(p, r) ==
  rank_as_fen(p, r, 0, 0)
    \o (IF r # 0 THEN <<"/">> \o board_as_fen(p, r - 1) ELSE <<>>)

Square_chars(sq) == <<FILE_CHARS[file(sq) + 1], RANK_CHARS[rank(sq) + 1]>>

as_fen(p) ==
  board_as_fen(p, 7)
    \o <<" ">>
    \o (IF p.side_to_move = White THEN <<"w">> ELSE <<"b">>)
    \o <<" ">>
    \o (IF can_castle_kingside(p, White) THEN <<"K">> ELSE <<>>)
    \o (IF can_castle_queenside(p, White) THEN <<"Q">> ELSE <<>>)
    \o (IF can_castle_kingside(p, Black) THEN <<"k">> ELSE <<>>)
    \o (IF can_castle_queenside(p, Black) THEN <<"q">> ELSE <<>>)
    \o <<" ">>
    \o (IF p.en_passant_square # None THEN Square_chars(p.en_passant_square) ELSE <<"-">>)
    \o <<" ">>
    \o u32_to_chars(p.halfmove_clock)
    \o <<" ">>
    \o u32_to_chars(p.fullmove_clock)

\* The initial positions, as FEN texts.
\* castle both wings, lone black king: 4k3/8/8/8/8/8/8/R3K2R w KQ - 0 1
Fen01 ==
  <<"4", "k", "3", "/", "8", "/", "8", "/", "8", "/", "8", "/", "8", "/", "8", "/", "R", "3", "K", "2", "R", " ", "w", " ", "K", "Q", " ", "-", " ", "0", " ", "1">>
\* black castles both wings: r3k2r/8/8/8/8/8/8/4K3 b kq - 3 7
Fen02 ==
  <<"r", "3", "k", "2", "r", "/", "8", "/", "8", "/", "8", "/", "8", "/", "8", "/", "8", "/", "4", "K", "3", " ", "b", " ", "k", "q", " ", "-", " ", "3", " ", "7">>
\* rook takes rook on its start square: 4k2r/8/8/8/8/8/8/4K2R w Kk - 0 1
Fen03 ==
  <<"4", "k", "2", "r", "/", "8", "/", "8", "/", "8", "/", "8", "/", "8", "/", "8", "/", "4", "K", "2", "R", " ", "w", " ", "K", "k", " ", "-", " ", "0", " ", "1">>
\* f1 attacked: no kingside castle; b1 attacked does not forbid the queenside one: 4k3/8/8/8/8/3b4/8/R3K2R b KQ - 0 1
Fen04 ==
  <<"4", "k", "3", "/", "8", "/", "8", "/", "8", "/", "8", "/", "3", "b", "4", "/", "8", "/", "R", "3", "K", "2", "R", " ", "b", " ", "K", "Q", " ", "-", " ", "0", " ", "1">>
\* king in check: no castle: 4k3/8/8/8/8/4r3/8/R3K2R w KQ - 0 1
Fen05 ==
  <<"4", "k", "3", "/", "8", "/", "8", "/", "8", "/", "8", "/", "4", "r", "3", "/", "8", "/", "R", "3", "K", "2", "R", " ", "w", " ", "K", "Q", " ", "-", " ", "0", " ", "1">>
\* double push, then en passant or another double push: 4k3/7p/8/8/1p6/8/P7/4K3 w - - 0 1
Fen06 ==
  <<"4", "k", "3", "/", "7", "p", "/", "8", "/", "8", "/", "1", "p", "6", "/", "8", "/", "P", "7", "/", "4", "K", "3", " ", "w", " ", "-", " ", "-", " ", "0", " ", "1">>
\* tests::apply::en_passant_capture: 8/8/8/3pP3/8/8/8/8 w - d6 0 1
Fen07 ==
  <<"8", "/", "8", "/", "8", "/", "3", "p", "P", "3", "/", "8", "/", "8", "/", "8", "/", "8", " ", "w", " ", "-", " ", "d", "6", " ", "0", " ", "1">>
\* tests::apply::basic_promote_capture: 5b2/4P3/8/8/8/8/8/8 w - - 0 1
Fen08 ==
  <<"5", "b", "2", "/", "4", "P", "3", "/", "8", "/", "8", "/", "8", "/", "8", "/", "8", "/", "8", " ", "w", " ", "-", " ", "-", " ", "0", " ", "1">>
\* kingside rights already lost, a rook can go to h1 or capture on h8: 4k2n/8/8/8/8/8/7R/R3K3 w Q - 0 1
Fen09 ==
  <<"4", "k", "2", "n", "/", "8", "/", "8", "/", "8", "/", "8", "/", "8", "/", "7", "R", "/", "R", "3", "K", "3", " ", "w", " ", "Q", " ", "-", " ", "0", " ", "1">>
\* black takes the h1 rook, another white rook retakes: 4k3/8/8/8/8/7r/8/4K1RR b K - 0 1
Fen10 ==
  <<"4", "k", "3", "/", "8", "/", "8", "/", "8", "/", "8", "/", "7", "r", "/", "8", "/", "4", "K", "1", "R", "R", " ", "b", " ", "K", " ", "-", " ", "0", " ", "1">>
\* minor pieces: 4k3/8/8/3n4/8/8/8/2B1K3 w - - 12 30
Fen11 ==
  <<"4", "k", "3", "/", "8", "/", "8", "/", "3", "n", "4", "/", "8", "/", "8", "/", "8", "/", "2", "B", "1", "K", "3", " ", "w", " ", "-", " ", "-", " ", "1", "2", " ", "3", "0">>
\* black double push then en passant: 4k3/p7/8/1P6/8/8/8/4K3 b - - 0 1
Fen12 ==
  <<"4", "k", "3", "/", "p", "7", "/", "8", "/", "1", "P", "6", "/", "8", "/", "8", "/", "8", "/", "4", "K", "3", " ", "b", " ", "-", " ", "-", " ", "0", " ", "1">>
StartFens ==
  {Fen01, Fen02, Fen03, Fen04, Fen05, Fen06,
   Fen07, Fen08, Fen09, Fen10, Fen11, Fen12}

\* ----------------------------------------------------------- legal play

\* The record of the last operation: its name, its move and the position it
\* was applied to.
Last(op, mov, pre) == [op |-> op, mov |-> mov, pre |-> pre]

\* Searcher::new: an empty transposition table and no search running.
SearchIdle == [pc |-> "idle", ttable |-> <<>>, searches |-> 0, searcher |-> "Searcher"]

\* A position is loaded from a FEN text (Position::from_fen).
Init ==
  /\ fen \in StartFens
  /\ pos = from_fen(fen).pos
  /\ last = Last("from_fen", None, pos)
  /\ ply = 0
  /\ panicked = FALSE
  /\ out = <<>>
  /\ phase = "play"
  /\ srch = SearchIdle

\* Position::apply_move with a generated move that passes the legality test
\* (the way perft and the searcher call it).  The legality test applies the
\* move to a copy, so a panic of apply_move shows there first.
ApplyMove ==
  /\ ply < MaxPly
  /\ ~panicked
  /\ \E mov \in generate_moves(pos) :
       \E r \in {apply_move(pos, mov)} :
         /\ r.ok => ~is_check(r.pos, pos.side_to_move)
         /\ pos' = r.pos
         /\ panicked' = ~r.ok
         /\ last' = Last("apply_move", mov, pos)
  /\ ply' = ply + 1
  /\ UNCHANGED <<fen, out, phase, srch>>

\* Position::apply_move with the null move (Analysis::mobility).
ApplyNullMove ==
  /\ ply < MaxPly
  /\ ~panicked
  /\ \E r \in {apply_move(pos, Move_null)} :
       /\ pos' = r.pos
       /\ panicked' = ~r.ok
       /\ last' = Last("apply_move", Move_null, pos)
  /\ ply' = ply + 1
  /\ UNCHANGED <<fen, out, phase, srch>>

Next == ApplyMove \/ ApplyNullMove

Spec == Init /\ [][Next]_vars

\* ------------------------------------------------------------------ claims

\* C1: after apply_move of a legal move, the incrementally maintained
\* zobrist_hash of the position equals the hash recomputed from scratch
\* (zobrist::hash) on the resulting position.
C1_IncrementalHashIsFullHash ==
  (last.op = "apply_move" /\ ~is_null(last.mov) /\ ~panicked)
    => pos.zobrist_hash = zobrist_hash_of(pos)

\* --------------------------------------------------------- FEN round trip
\* The FEN texts given to from_fen: every combination of the fields below,
\* joined by single spaces. Each list holds well-formed fields and fields
\* the parser's tests reject.
\* piece placements: 8/8/8/8/8/8/8/8, r3k2r/8/8/8/8/8/8/R3K2R, 4k3/8/8/3pP3/8/8/8/4K3, rnbqkbnr/pppppppp/8/8/8/8/PPPPPPPP/RNBQKBNR, 8/8/8/8/8/8/8/9, 8/8/8/8/8/8/8/7, 8/8/8/8/8/8/8/4x3, 4k3/8/8/8/8/8/8/4K4
FenBoards ==
  {<<"8", "/", "8", "/", "8", "/", "8", "/", "8", "/", "8", "/", "8", "/", "8">>,
   <<"r", "3", "k", "2", "r", "/", "8", "/", "8", "/", "8", "/", "8", "/", "8", "/", "8", "/", "R", "3", "K", "2", "R">>,
   <<"4", "k", "3", "/", "8", "/", "8", "/", "3", "p", "P", "3", "/", "8", "/", "8", "/", "8", "/", "4", "K", "3">>,
   <<"r", "n", "b", "q", "k", "b", "n", "r", "/", "p", "p", "p", "p", "p", "p", "p", "p", "/", "8", "/", "8", "/", "8", "/", "8", "/", "P", "P", "P", "P", "P", "P", "P", "P", "/", "R", "N", "B", "Q", "K", "B", "N", "R">>,
   <<"8", "/", "8", "/", "8", "/", "8", "/", "8", "/", "8", "/", "8", "/", "9">>,
   <<"8", "/", "8", "/", "8", "/", "8", "/", "8", "/", "8", "/", "8", "/", "7">>,
   <<"8", "/", "8", "/", "8", "/", "8", "/", "8", "/", "8", "/", "8", "/", "4", "x", "3">>,
   <<"4", "k", "3", "/", "8", "/", "8", "/", "8", "/", "8", "/", "8", "/", "8", "/", "4", "K", "4">>}
\* sides to move: w, b, c
FenSides ==
  {<<"w">>,
   <<"b">>,
   <<"c">>}
\* castling fields: "-", "KQkq", "K", "Qk", "", "KK", "x"
FenCastles ==
  {<<"-">>,
   <<"K", "Q", "k", "q">>,
   <<"K">>,
   <<"Q", "k">>,
   <<>>,
   <<"K", "K">>,
   <<"x">>}
\* en-passant fields: -, d6, e3, z6
FenEnPassants ==
  {<<"-">>,
   <<"d", "6">>,
   <<"e", "3">>,
   <<"z", "6">>}
\* clock fields: "0 1", "12 30", "00 1", "0 1 ", "0", " 1", "0 x"
FenClocks ==
  {<<"0", " ", "1">>,
   <<"1", "2", " ", "3", "0">>,
   <<"0", "0", " ", "1">>,
   <<"0", " ", "1", " ">>,
   <<"0">>,
   <<" ", "1">>,
   <<"0", " ", "x">>}
FenInputs ==
  {b \o <<" ">> \o s \o <<" ">> \o c \o <<" ">> \o e \o <<" ">> \o k :
     b \in FenBoards, s \in FenSides, c \in FenCastles, e \in FenEnPassants, k \in FenClocks}

InitFen ==
  /\ fen \in FenInputs
  /\ pos = Position_new
  /\ last = Last("new", None, pos)
  /\ ply = 0
  /\ panicked = FALSE
  /\ out = <<>>
  /\ phase = "input"
  /\ srch = SearchIdle

\* Position::from_fen(fen): Ok(pos) or Err.
FromFen ==
  /\ phase = "input"
  /\ \E r \in {from_fen(fen)} :
       IF r.ok
         THEN pos' = r.pos /\ phase' = "parsed"
         ELSE pos' = pos /\ phase' = "rejected"
  /\ last' = Last("from_fen", None, pos)
  /\ UNCHANGED <<ply, panicked, fen, out, srch>>

\* pos.as_fen() on the parsed position.
AsFen ==
  /\ phase = "parsed"
  /\ out' = as_fen(pos)
  /\ phase' = "rendered"
  /\ UNCHANGED <<pos, last, ply, panicked, fen, srch>>

NextFen == FromFen \/ AsFen

SpecFen == InitFen /\ [][NextFen]_vars

\* C3: for every text f that from_fen accepts, from_fen(f).as_fen() is
\* exactly f.
C3_RenderInvertsParse == phase = "rendered" => out = fen

\* ------------------------------------------------------- editing a position
\* add_piece, remove_piece and apply_move called in any order on a position.

\* Number of calls made on a position.
MaxEdits == 2

\* The squares and pieces the editing calls are tried with.
EditSquares == {E1, H1, 35, 36}
EditPieces == {Piece(Rook, White), Piece(King, White), Piece(Pawn, Black)}
\* The positions editing starts from: the empty one and three parsed ones.
EditFens == {Fen01, Fen07, Fen08}

InitEdit ==
  /\ fen \in EditFens \cup {<<>>}
  /\ pos = IF fen = <<>> THEN Position_new ELSE from_fen(fen).pos
  /\ last = Last("new", None, pos)
  /\ ply = 0
  /\ panicked = FALSE
  /\ out = <<>>
  /\ phase = "edit"
  /\ srch = SearchIdle

\* pos.add_piece(square, piece): Ok, or Err on an occupied square.
AddPiece ==
  /\ ply < MaxEdits
  /\ ~panicked
  /\ \E square \in EditSquares, piece \in EditPieces :
       \E r \in {add_piece(pos, square, piece)} :
         /\ pos' = r.pos
         /\ last' = Last(IF r.ok THEN "add_piece" ELSE "add_piece_err", square, pos)
  /\ ply' = ply + 1
  /\ UNCHANGED <<panicked, fen, out, phase, srch>>

\* pos.remove_piece(square): Ok, or Err on an empty square.
RemovePiece ==
  /\ ply < MaxEdits
  /\ ~panicked
  /\ \E square \in EditSquares :
       \E r \in {remove_piece(pos, square)} :
         /\ pos' = r.pos
         /\ last' = Last(IF r.ok THEN "remove_piece" ELSE "remove_piece_err", square, pos)
  /\ ply' = ply + 1
  /\ UNCHANGED <<panicked, fen, out, phase, srch>>

\* pos.apply_move(mov) with a move the generator produced for the position.
ApplyGenerated ==
  /\ ply < MaxEdits
  /\ ~panicked
  /\ \E mov \in generate_moves(pos) :
       \E r \in {apply_move(pos, mov)} :
         /\ pos' = r.pos
         /\ panicked' = ~r.ok
         /\ last' = Last("apply_move", mov, pos)
  /\ ply' = ply + 1
  /\ UNCHANGED <<fen, out, phase, srch>>

NextEdit == AddPiece \/ RemovePiece \/ ApplyGenerated

SpecEdit == InitEdit /\ [][NextEdit]_vars

\* C4: after any sequence of successful add_piece, remove_piece and apply_move
\* calls, the union of the two color boards equals the union of the twelve
\* piece boards, and no square is in more than one piece board.
C4_BoardsConsistent ==
  ~panicked =>
    /\ pos.boards_by_color[White] \cup pos.boards_by_color[Black]
         = UNION {pos.boards_by_piece[i] : i \in 0 .. 11}
    /\ \A i, j \in 0 .. 11 :
         i # j => pos.boards_by_piece[i] \cap pos.boards_by_piece[j] = {}

\* A capture applied to a parsed position that earlier calls have changed.
C4_Witness ==
  /\ last.op = "apply_move"
  /\ is_capture(last.mov)
  /\ ~panicked
  /\ fen # <<>>
  /\ last.pre.boards_by_piece # from_fen(fen).pos.boards_by_piece

\* ------------------------------------------------- apply_move with any move
\* apply_move takes any Move value; nothing in it checks the move against the
\* position except the expect/unwrap calls it panics on.

\* Number of apply_move calls made with an arbitrary move.
MaxRawPly == 1

\* The destinations tried from a source square: the squares around it, and
\* those two files or two ranks away.
RawTargets(square) ==
  king_attacks(square)
    \cup {t \in {square - 16, square + 16} : OnBoard(t)}
    \cup {t \in {square - 2, square + 2} : OnBoard(t) /\ rank(t) = rank(square)}

\* A Move is sixteen bits: source, destination and the four attribute bits.
RawMoves(p) ==
  UNION {{square * 1024 + t * 16 + a : t \in RawTargets(square), a \in 0 .. 15} :
           square \in pieces(p, White) \cup pieces(p, Black)}

\* pos.apply_move(mov) for any move from an occupied square.
ApplyRaw ==
  /\ ply < MaxRawPly
  /\ ~panicked
  /\ \E mov \in RawMoves(pos) :
       \E r \in {apply_move(pos, mov)} :
         /\ pos' = r.pos
         /\ panicked' = ~r.ok
         /\ last' = Last("apply_move", mov, pos)
  /\ ply' = ply + 1
  /\ UNCHANGED <<fen, out, phase, srch>>

\* pos.apply_move(mov) from an empty source square: the first expect panics.
ApplyFromEmpty ==
  /\ ply < MaxRawPly
  /\ ~panicked
  /\ \E square \in {A1, 27, H8} \ (pieces(pos, White) \cup pieces(pos, Black)) :
       \E r \in {apply_move(pos, Move_quiet(square, 28))} :
         /\ pos' = r.pos
         /\ panicked' = ~r.ok
         /\ last' = Last("apply_move", Move_quiet(square, 28), pos)
  /\ ply' = ply + 1
  /\ UNCHANGED <<fen, out, phase, srch>>

NextRaw == ApplyRaw \/ ApplyFromEmpty

SpecRaw == Init /\ [][NextRaw]_vars

\* C5: apply_move is atomic: when the move is not valid for the position, the
\* position is left exactly as it was before the call.
C5_InvalidMoveLeavesPosition ==
  (last.op = "apply_move" /\ last.mov \notin generate_moves(last.pre))
    => pos = last.pre

\* ------------------------------------------------ claims about legal play

\* The castling rights a color holds in a position.
rights_of(p, color) == p.castle_status \cap castle_mask(color)

\* C6: a castling right that has been cleared is never set again by a later
\* apply_move: no step adds a right to castle_status.
C6_ClearedRightStaysCleared ==
  [][pos'.castle_status \subseteq pos.castle_status]_vars

\* White held the kingside right, its h1 rook was captured, and another white
\* rook has now moved onto h1 with the king still on e1: the right stays away.
C6_Witness ==
  /\ last.op = "apply_move"
  /\ destination(last.mov) = H1
  /\ piece_at(pos, H1) = Piece(Rook, White)
  /\ piece_at(last.pre, H1) = Piece(Rook, Black)
  /\ E1 \in kings(pos, White)
  /\ WHITE_KINGSIDE \in from_fen(fen).pos.castle_status
  /\ WHITE_KINGSIDE \notin pos.castle_status

\* C7: a king move clears both castling rights of the mover; a rook move from
\* the mover's kingside (queenside) rook start square clears only that right; no
\* other move changes the mover's own rights.
C7_MoverRights ==
  (last.op = "apply_move" /\ ~is_null(last.mov)) =>
    LET us == last.pre.side_to_move
        kind == piece_at(last.pre, source(last.mov)).kind
        before == rights_of(last.pre, us)
        after == rights_of(pos, us)
    IN /\ ~panicked
       /\ kind = King => after = {}
       /\ (kind = Rook /\ source(last.mov) = kingside_rook(us))
            => after = before \ {kingside_castle_mask(us)}
       /\ (kind = Rook /\ source(last.mov) = queenside_rook(us))
            => after = before \ {queenside_castle_mask(us)}
       /\ (kind # King /\ ~(kind = Rook /\ source(last.mov)
                                \in {kingside_rook(us), queenside_rook(us)}))
            => after = before

\* A rook left h1 while White held both rights: only the queenside one is left.
C7_Witness ==
  /\ last.op = "apply_move"
  /\ source(last.mov) = H1
  /\ piece_at(last.pre, H1) = Piece(Rook, White)
  /\ rights_of(last.pre, White) = {WHITE_KINGSIDE, WHITE_QUEENSIDE}
  /\ rights_of(pos, White) = {WHITE_QUEENSIDE}

\* A piece of the given color attacks the square: some piece of that color has
\* the square in its own attack set.
attacked_by(p, color, square) ==
  \E attacker \in pieces(p, color) :
    square \in piece_attacks(piece_at(p, attacker), attacker,
                             pieces(p, White) \cup pieces(p, Black))

\* C8: generate_moves emits a kingside castle iff the side to move holds the
\* right, its king is not in check, its own rook is on the kingside start
\* square, and the two squares east of the king are empty and not attacked; a
\* queenside castle iff it holds that right, the king is not in check, its own
\* rook is on the queenside start square, the three squares west of the king
\* are empty and the two the king crosses are not attacked.
C8_CastleGeneration ==
  ~panicked =>
    LET us == pos.side_to_move
        them == toggle(us)
        all == pieces(pos, White) \cup pieces(pos, Black)
    IN \A king \in kings(pos, us) :
         /\ Move_kingside_castle(king, king + 2) \in generate_moves(pos)
              <=> /\ can_castle_kingside(pos, us)
                  /\ ~attacked_by(pos, them, king)
                  /\ piece_at(pos, kingside_rook(us)) = Piece(Rook, us)
                  /\ {king + 1, king + 2} \cap all = {}
                  /\ ~attacked_by(pos, them, king + 1)
                  /\ ~attacked_by(pos, them, king + 2)
         /\ Move_queenside_castle(king, king - 2) \in generate_moves(pos)
              <=> /\ can_castle_queenside(pos, us)
                  /\ ~attacked_by(pos, them, king)
                  /\ piece_at(pos, queenside_rook(us)) = Piece(Rook, us)
                  /\ {king - 1, king - 2, king - 3} \cap all = {}
                  /\ ~attacked_by(pos, them, king - 1)
                  /\ ~attacked_by(pos, them, king - 2)
         /\ \A mov \in generate_moves(pos) :
              is_castle(mov) =>
                mov \in {Move_kingside_castle(king, king + 2),
                         Move_queenside_castle(king, king - 2)}

\* After a move: both rights held, the king not in check, f1 attacked and b1
\* attacked: only the queenside castle is generated.
C8_Witness ==
  /\ last.op = "apply_move"
  /\ ~is_null(last.mov)
  /\ pos.side_to_move = White
  /\ rights_of(pos, White) = {WHITE_KINGSIDE, WHITE_QUEENSIDE}
  /\ E1 \in kings(pos, White)
  /\ ~attacked_by(pos, Black, E1)
  /\ attacked_by(pos, Black, 5)
  /\ attacked_by(pos, Black, 1)
  /\ Move_queenside_castle(E1, C1) \in generate_moves(pos)
  /\ Move_kingside_castle(E1, G1) \notin generate_moves(pos)

\* C9: after apply_move(m) the en-passant square is present exactly when m is a
\* double pawn push, and is then the square between m's source and
\* destination; after every other move, the null move included, it is absent.
C9_EnPassantSquare ==
  last.op = "apply_move" =>
    /\ ~panicked
    /\ IF ~is_null(last.mov) /\ is_double_pawn_push(last.mov)
         THEN /\ pos.en_passant_square # None
              /\ file(pos.en_passant_square) = file(source(last.mov))
              /\ 2 * rank(pos.en_passant_square)
                   = rank(source(last.mov)) + rank(destination(last.mov))
         ELSE pos.en_passant_square = None

\* A double pawn push answered a double pawn push: the en-passant square is the
\* one the second pawn skipped.
C9_Witness ==
  /\ last.op = "apply_move"
  /\ is_double_pawn_push(last.mov)
  /\ last.pre.en_passant_square # None
  /\ pos.en_passant_square # None
  /\ pos.en_passant_square # last.pre.en_passant_square

\* C10: apply_move of an en-passant move removes exactly one enemy piece, the
\* pawn one square behind the destination (south of it when White moves, north
\* when Black moves), and puts the capturing pawn on the destination, which
\* held nothing.
C10_EnPassantCapture ==
  (last.op = "apply_move" /\ ~is_null(last.mov) /\ is_en_passant(last.mov)) =>
    LET us == last.pre.side_to_move
        them == toggle(us)
        dest == destination(last.mov)
        behind == IF us = White THEN dest - 8 ELSE dest + 8
    IN /\ ~panicked
       /\ piece_at(last.pre, behind) = Piece(Pawn, them)
       /\ piece_at(last.pre, dest) = NoPiece
       /\ piece_at(pos, behind) = NoPiece
       /\ piece_at(pos, dest) = Piece(Pawn, us)
       /\ piece_at(pos, source(last.mov)) = NoPiece
       /\ \A square \in SQUARES \ {behind, dest, source(last.mov)} :
            piece_at(pos, square) = piece_at(last.pre, square)

\* Black has taken en passant the white pawn that had just pushed two squares.
C10_Witness ==
  /\ last.op = "apply_move"
  /\ is_en_passant(last.mov)
  /\ last.pre.side_to_move = Black
  /\ ~panicked
  /\ piece_at(pos, destination(last.mov)) = Piece(Pawn, Black)
  /\ piece_at(last.pre, destination(last.mov) + 8) = Piece(Pawn, White)
  /\ pawns(pos, White) = pawns(last.pre, White) \ {destination(last.mov) + 8}

\* ------------------------------------------------------------------ scores

\* Score::Win(n), Score::Loss(n) and Score::Evaluated(x); the evaluated
\* values of the model are integers.
Win(n) == [tag |-> "Win", v |-> n]
Loss(n) == [tag |-> "Loss", v |-> n]
Evaluated(x) == [tag |-> "Evaluated", v |-> x]
\* Option<Score>::None
NoScore == [tag |-> "None", v |-> 0]

Score_step(s) == IF s.tag \in {"Win", "Loss"} THEN [s EXCEPT !.v = @ + 1] ELSE s

Score_neg(s) ==
  CASE s.tag = "Win" -> Loss(s.v)
    [] s.tag = "Loss" -> Win(s.v)
    [] OTHER -> Evaluated(0 - s.v)

\* Ord::cmp as -1 (Less), 0 (Equal), 1 (Greater).
int_cmp(a, b) == IF a < b THEN 0 - 1 ELSE IF a > b THEN 1 ELSE 0

\* Score_cmp with losses ordered like wins: the loss in fewer moves is greater.
Score_cmp_losses_like_wins(a, b) ==
  CASE a.tag = "Win" /\ b.tag = "Win" -> int_cmp(b.v, a.v)
    [] a.tag = "Loss" /\ b.tag = "Loss" -> int_cmp(b.v, a.v)
    [] a.tag = "Win" -> 1
    [] b.tag = "Win" -> 0 - 1
    [] a.tag = "Loss" -> 0 - 1
    [] b.tag = "Loss" -> 1
    [] OTHER -> int_cmp(a.v, b.v)

Score_cmp(a, b) ==
  CASE a.tag = "Win" /\ b.tag = "Win" -> int_cmp(b.v, a.v)
    [] a.tag = "Loss" /\ b.tag = "Loss" -> int_cmp(a.v, b.v)
    [] a.tag = "Win" -> 1
    [] b.tag = "Win" -> 0 - 1
    [] a.tag = "Loss" -> 0 - 1
    [] b.tag = "Loss" -> 1
    [] OTHER -> int_cmp(a.v, b.v)

\* ------------------------------------------------------------------ the game searched

\* The searcher sees a position only through its legal moves in search order,
\* apply_move, is_check, is_legal, its side to move, its Zobrist key and the
\* evaluator (Searcher is generic in the evaluator).  The searched game is an
\* input: a tree whose nodes are the move sequences played from the root.
\*   side       the side to move at the root
\*   values     the evaluator's scores, dealt to the nodes by node_index
\*   mated      nodes with no legal move whose side to move is in check
\*   stalemated nodes with no legal move whose side to move is not in check
Games ==
  { [side |-> White, values |-> <<1, 0 - 1, 0, 2, 0 - 2>>, mated |-> {}, stalemated |-> {}],
    [side |-> Black, values |-> <<0, 1, 0 - 1>>, mated |-> {<<1, 2>>}, stalemated |-> {<<2>>}],
    [side |-> White, values |-> <<0 - 1, 2>>, mated |-> {<<2, 1>>, <<1, 1, 1>>}, stalemated |-> {<<1, 2>>}] }

RECURSIVE node_index(_)
node_index(n) == IF n = <<>> THEN 0 ELSE n[Len(n)] + 2 * node_index(SubSeq(n, 1, Len(n) - 1))

side_to_move(g, n) == IF Len(n) % 2 = 0 THEN g.side ELSE toggle(g.side)

\* generate_moves, retain(is_legal_given_pseudolegal) and order_moves.
ordered_legal_moves(g, n) == IF n \in g.mated \cup g.stalemated THEN <<>> ELSE <<1, 2>>

\* Position::is_legal: the null move is never generated.
node_is_legal(g, n, mov) == \E i \in 1 .. Len(ordered_legal_moves(g, n)) : ordered_legal_moves(g, n)[i] = mov

\* clone and apply_move
child_of(n, mov) == Append(n, mov)

node_is_check(g, n) == n \in g.mated

\* Position::zobrist_hash of a node: a 64-bit key, so that two positions may
\* share one; in the games of the model the positions after the moves 1, 2
\* and after the move 2 do.
zobrist_key_of(n) == IF n = <<1, 2>> THEN <<2>> ELSE n

\* BoardEvaluator::evaluate: a score from White's point of view; a mated side
\* to move has lost at once, a side without moves and not in check has drawn.
evaluate(g, n) ==
  IF n \in g.mated THEN (IF side_to_move(g, n) = White THEN Loss(0) ELSE Win(0))
  ELSE IF n \in g.stalemated THEN Evaluated(0)
  ELSE Evaluated(g.values[(node_index(n) % Len(g.values)) + 1])

\* ------------------------------------------------------------------ transposition table

\* The table is a map from Zobrist key to entry; NodeKind is the pair of the
\* fields node and score.
TableEntry(key, best_move, depth, node, score) ==
  [zobrist_key |-> key, best_move |-> best_move, depth |-> depth, node |-> node, score |-> score]

\* Option<&TableEntry>::None
NoEntry == TableEntry(None, None, 0, "Miss", NoScore)

\* record_entry that keeps a deeper entry already in the table.
record_entry_keep_deeper(table, entry) ==
  IF entry.zobrist_key \in DOMAIN table /\ table[entry.zobrist_key].depth > entry.depth
    THEN table
    ELSE (entry.zobrist_key :> entry) @@ table

\* HashMap::insert under the entry's key.
record_entry(table, entry) == (entry.zobrist_key :> entry) @@ table

record_principal_variation(table, key, best_move, depth, score) ==
  record_entry(table, TableEntry(key, best_move, depth, "PrincipalVariation", score))

record_cut(table, key, best_move, depth, score) ==
  record_entry(table, TableEntry(key, best_move, depth, "Cut", score))

\* record_all that records the node as a principal variation of the null move.
record_all_as_principal_variation(table, key, depth, score) ==
  record_entry(table, TableEntry(key, Move_null, depth, "PrincipalVariation", score))

record_all(table, key, depth, score) ==
  record_entry(table, TableEntry(key, None, depth, "All", score))

query_copy(table, key) == IF key \in DOMAIN table THEN table[key] ELSE NoEntry


\* ------------------------------------------------------------------ searcher

\* One activation of alpha_beta: its arguments, its locals and the place it
\* stands at: "enter" at its start, "hash" when the search of the hash move
\* has returned, "poll" before the out_of_time test, "loop" when the search of
\* the move mov of the move loop has returned.
Frame(node, alpha, beta, depth) ==
  [node |-> node, alpha |-> alpha, beta |-> beta, depth |-> depth, pc |-> "enter",
   hash_move |-> None, improved_alpha |-> FALSE, moves |-> <<>>, mov |-> None]

top(s) == s.stack[Len(s.stack)]

\* alpha_beta returns value: the caller goes on with it; the caller of the
\* root activation is search_depth.
return_score(s, table, value) ==
  [s EXCEPT !.stack = SubSeq(@, 1, Len(@) - 1), !.ttable = table, !.ret = value, !.timed_out = FALSE,
            !.pc = IF Len(s.stack) = 1 THEN "search_depth" ELSE @]

\* The keys whose table entry holds the score of an activation that ran out
\* of time, after the caller of that activation has or has not recorded an
\* entry under key (history of the model).
noted(s, key, recorded) ==
  IF ~recorded THEN s.cut_short
  ELSE IF s.timed_out THEN s.cut_short \cup {key}
  ELSE s.cut_short \ {key}

\* alpha_beta, standing at frame, calls itself for the position after mov
\* with the window (-beta, -alpha) and one ply less.
call_child(s, table, frame, mov) ==
  [s EXCEPT !.stack = Append(SubSeq(@, 1, Len(@) - 1), frame)
                        \o <<Frame(child_of(frame.node, mov), Score_neg(frame.beta),
                                   Score_neg(frame.alpha), frame.depth - 1)>>,
            !.ttable = table, !.ret = NoScore, !.timed_out = FALSE]

\* alpha_beta goes on at frame without a call.
goto(s, table, frame) ==
  [s EXCEPT !.stack = Append(SubSeq(@, 1, Len(@) - 1), frame), !.ttable = table, !.ret = NoScore,
            !.timed_out = FALSE]

\* now - start > budget; without a budget the search is never out of time.
out_of_time(s) == s.time_budget /\ s.over

quiesce(g, n) == IF side_to_move(g, n) = White THEN evaluate(g, n) ELSE Score_neg(evaluate(g, n))

\* consider_transposition that trusts the entry's best move without the
\* legality test.
consider_transposition_unchecked(table, g, node, alpha, beta, depth) ==
  LET entry == query_copy(table, zobrist_key_of(node))
      hash_move == entry.best_move
      Outcome(cutoff, a) == [hash_move |-> hash_move, cutoff |-> cutoff, alpha |-> a]
  IN IF entry.node = "Miss" THEN [hash_move |-> None, cutoff |-> NoScore, alpha |-> alpha]
     ELSE IF entry.depth >= depth
       THEN CASE entry.node = "PrincipalVariation" -> Outcome(Score_step(entry.score), alpha)
              [] entry.node = "Cut" ->
                   IF Score_cmp(entry.score, beta) >= 0 THEN Outcome(Score_step(beta), alpha)
                   ELSE IF Score_cmp(entry.score, alpha) >= 0 THEN Outcome(NoScore, entry.score)
                   ELSE Outcome(NoScore, alpha)
              [] entry.node = "All" ->
                   IF Score_cmp(entry.score, alpha) <= 0 THEN Outcome(Score_step(alpha), alpha)
                   ELSE Outcome(NoScore, alpha)
       ELSE Outcome(NoScore, alpha)

\* The hash move, the cutoff score (NoScore when the table gives none) and
\* the value of alpha afterwards.
consider_transposition(table, g, node, alpha, beta, depth) ==
  LET entry == query_copy(table, zobrist_key_of(node))
      hash_move == entry.best_move
      Outcome(cutoff, a) == [hash_move |-> hash_move, cutoff |-> cutoff, alpha |-> a]
  IN IF entry.node = "Miss" THEN [hash_move |-> None, cutoff |-> NoScore, alpha |-> alpha]
     ELSE IF entry.depth >= depth /\ (hash_move = None \/ node_is_legal(g, node, hash_move))
       THEN CASE entry.node = "PrincipalVariation" -> Outcome(Score_step(entry.score), alpha)
              [] entry.node = "Cut" ->
                   IF Score_cmp(entry.score, beta) >= 0 THEN Outcome(Score_step(beta), alpha)
                   ELSE IF Score_cmp(entry.score, alpha) >= 0 THEN Outcome(NoScore, entry.score)
                   ELSE Outcome(NoScore, alpha)
              [] entry.node = "All" ->
                   IF Score_cmp(entry.score, alpha) <= 0 THEN Outcome(Score_step(alpha), alpha)
                   ELSE Outcome(NoScore, alpha)
       ELSE Outcome(NoScore, alpha)

\* The table consultation at the start of alpha_beta of
\* IterativeDeepeningSearcher: as consider_transposition, but no hash move
\* comes from an entry that is too shallow or whose best move is not legal.
alpha_beta_transposition(table, g, node, alpha, beta, depth) ==
  LET entry == query_copy(table, zobrist_key_of(node))
  IN IF entry.depth >= depth /\ (entry.best_move = None \/ node_is_legal(g, node, entry.best_move))
       THEN consider_transposition(table, g, node, alpha, beta, depth)
       ELSE [hash_move |-> None, cutoff |-> NoScore, alpha |-> alpha]

\* The head of the loop over the depths 1 ..= max_depth in search: the next
\* depth is started by search_depth with the full window at the root, or the
\* loop is over and search returns the current best move and score.
next_depth(s) ==
  IF s.depth >= s.max_depth
    THEN [s EXCEPT !.pc = "returned", !.best_move = s.current_best_move, !.score = s.current_best_score]
    ELSE [s EXCEPT !.pc = "alpha_beta", !.depth = @ + 1, !.ret = NoScore,
                   !.stack = <<Frame(<<>>, Loss(0), Win(0), s.depth + 1)>>]

\* get_pv: the best moves of the table followed from node for up to depth
\* plies, each applied to reach the next position, until an entry is missing
\* or has no best move.
RECURSIVE get_pv(_, _, _)
get_pv(table, node, depth) ==
  IF depth = 0 \/ query_copy(table, zobrist_key_of(node)).best_move = None THEN <<>>
  ELSE <<query_copy(table, zobrist_key_of(node)).best_move>>
         \o get_pv(table, child_of(node, query_copy(table, zobrist_key_of(node)).best_move), depth - 1)

\* Searcher::search on a game: IterativeSearch::new reads the clock; search
\* then sets its current best move and score and enters its loop.  completed
\* is the history of the model: the depth, move and score of the last depth
\* that search saw finished within the budget.  timed_out says that ret is
\* the alpha of an activation that ran out of time, pv is the last principal
\* variation read from the table, searches counts the searches of the
\* Searcher.
IterativeSearch_new(searcher, g, max_depth, time_budget) ==
  [pc |-> "new", searcher |-> searcher.searcher, searches |-> searcher.searches + 1, timed_out |-> FALSE, cut_short |-> {}, pv |-> <<>>,
   game |-> g, max_depth |-> max_depth, time_budget |-> time_budget,
   over |-> FALSE, depth |-> 0, stack |-> <<>>, ret |-> NoScore, ttable |-> searcher.ttable,
   current_best_move |-> Move_null, current_best_score |-> Loss(0),
   result_move |-> None, result_score |-> NoScore, best_move |-> None, score |-> NoScore,
   completed |-> [depth |-> 0, best_move |-> None, score |-> NoScore]]


\* ------------------------------------------------------------------ the searcher at work

MaxDepth == 3
MaxSearches == 2

\* IterativeDeepeningSearcher::new: the older searcher, with a table of its own.
IterativeDeepeningSearcher_new == [SearchIdle EXCEPT !.searcher = "IterativeDeepeningSearcher"]

InitSearch ==
  /\ fen = <<>>
  /\ pos = Position_new
  /\ last = Last("from_fen", None, pos)
  /\ ply = 0
  /\ panicked = FALSE
  /\ out = <<>>
  /\ phase = "search"
  /\ srch \in {SearchIdle, IterativeDeepeningSearcher_new}

\* Searcher::search is called with a depth limit and with or without a
\* budget: the IterativeSearch is made and its clock is started.
StartSearch ==
  /\ srch.pc = "idle"
  /\ srch.searches < MaxSearches
  /\ \E g \in Games, max_depth \in 0 .. MaxDepth, time_budget \in BOOLEAN :
       srch' = IterativeSearch_new(srch, g, max_depth, time_budget)
  /\ last' = Last("Searcher::search", None, srch)
  /\ UNCHANGED <<pos, ply, panicked, fen, out, phase>>

\* search enters its loop over the depths: the first depth is started
\* without a look at the clock.
SearchFirstDepth ==
  /\ srch.pc = "new"
  /\ srch' = next_depth(srch)
  /\ last' = Last("search", None, srch)
  /\ UNCHANGED <<pos, ply, panicked, fen, out, phase>>

\* The clock passes the budget while the search is running.
BudgetRunsOut ==
  /\ srch.pc \in {"new", "alpha_beta", "search_depth", "search"}
  /\ srch.time_budget /\ ~srch.over
  /\ srch' = [srch EXCEPT !.over = TRUE]
  /\ UNCHANGED <<pos, last, ply, panicked, fen, out, phase>>

\* search has returned to its caller, which keeps the Searcher and its table
\* for the next search.
SearchReturns ==
  /\ srch.pc = "returned"
  /\ srch' = [SearchIdle EXCEPT !.ttable = srch.ttable, !.searches = srch.searches, !.searcher = srch.searcher]
  /\ last' = Last("returned", None, srch)
  /\ UNCHANGED <<pos, ply, panicked, fen, out, phase>>

\* alpha_beta from its start to the call for the hash move: quiescence at
\* depth 0, the table's cutoff, the legality test of the hash move.
AlphaBetaEnter ==
  /\ srch.pc = "alpha_beta" /\ top(srch).pc = "enter"
  /\ \E f \in {top(srch)} :
       IF f.depth = 0
         THEN srch' = return_score(srch, srch.ttable, quiesce(srch.game, f.node))
         ELSE \E t \in {IF srch.searcher = "Searcher"
                            THEN consider_transposition(srch.ttable, srch.game, f.node, f.alpha, f.beta, f.depth)
                            ELSE alpha_beta_transposition(srch.ttable, srch.game, f.node, f.alpha, f.beta, f.depth)} :
           IF t.cutoff # NoScore
             THEN srch' = return_score(srch, srch.ttable, t.cutoff)
             ELSE IF t.hash_move # None /\ node_is_legal(srch.game, f.node, t.hash_move)
               THEN srch' = call_child(srch, srch.ttable,
                                       [f EXCEPT !.alpha = t.alpha, !.hash_move = t.hash_move, !.pc = "hash"],
                                       t.hash_move)
               ELSE srch' = goto(srch, srch.ttable, [f EXCEPT !.alpha = t.alpha, !.pc = "poll"])
  /\ last' = Last("alpha_beta_enter", None, srch)
  /\ UNCHANGED <<pos, ply, panicked, fen, out, phase>>

\* alpha_beta after the search of the hash move: a beta cutoff, or a raised
\* alpha recorded as principal variation, then on to the out_of_time test.
AlphaBetaHashMove ==
  /\ srch.pc = "alpha_beta" /\ top(srch).pc = "hash"
  /\ \E f \in {top(srch)}, score \in {Score_neg(srch.ret)} :
       IF Score_cmp(score, f.beta) >= 0
         THEN srch' = [return_score(srch, record_cut(srch.ttable, zobrist_key_of(f.node), f.hash_move, f.depth, score),
                                    Score_step(f.beta))
                         EXCEPT !.cut_short = noted(srch, zobrist_key_of(f.node), TRUE)]
         ELSE IF Score_cmp(score, f.alpha) > 0
           THEN srch' = [goto(srch, record_principal_variation(srch.ttable, zobrist_key_of(f.node),
                                                               f.hash_move, f.depth, score),
                              [f EXCEPT !.improved_alpha = TRUE, !.alpha = score, !.pc = "poll"])
                           EXCEPT !.cut_short = noted(srch, zobrist_key_of(f.node), TRUE)]
           ELSE srch' = goto(srch, srch.ttable, [f EXCEPT !.pc = "poll"])
  /\ last' = Last("alpha_beta_hash", None, srch)
  /\ UNCHANGED <<pos, ply, panicked, fen, out, phase>>

\* alpha_beta at the out_of_time test: out of time it returns alpha and
\* records nothing; else it generates and orders the legal moves, scores a
\* position without moves, or calls itself for the first move.
AlphaBetaPoll ==
  /\ srch.pc = "alpha_beta" /\ top(srch).pc = "poll"
  /\ \E f \in {top(srch)} :
       IF out_of_time(srch)
         THEN srch' = [return_score(srch, srch.ttable, f.alpha) EXCEPT !.timed_out = TRUE]
         ELSE \E moves \in {ordered_legal_moves(srch.game, f.node)} :
           IF Len(moves) = 0
             THEN \E score \in {IF node_is_check(srch.game, f.node) THEN Loss(0) ELSE Evaluated(0)} :
               srch' = [return_score(srch, record_principal_variation(srch.ttable, zobrist_key_of(f.node),
                                                                      Move_null, f.depth, score),
                                     Score_step(score))
                          EXCEPT !.cut_short = noted(srch, zobrist_key_of(f.node), TRUE)]
             ELSE srch' = call_child(srch, srch.ttable,
                                     [f EXCEPT !.pc = "loop", !.mov = Head(moves), !.moves = Tail(moves)],
                                     Head(moves))
  /\ last' = Last("alpha_beta_poll", None, srch)
  /\ UNCHANGED <<pos, ply, panicked, fen, out, phase>>

\* alpha_beta after the search of a move of the loop: a beta cutoff, a raised
\* alpha, the next move, or the end of the loop.
AlphaBetaLoop ==
  /\ srch.pc = "alpha_beta" /\ top(srch).pc = "loop"
  /\ \E f \in {top(srch)}, score \in {Score_neg(srch.ret)} :
       IF Score_cmp(score, f.beta) >= 0
         THEN srch' = [return_score(srch, record_cut(srch.ttable, zobrist_key_of(f.node), f.mov, f.depth, score),
                                    Score_step(f.beta))
                         EXCEPT !.cut_short = noted(srch, zobrist_key_of(f.node), TRUE)]
         ELSE \E raised \in {Score_cmp(score, f.alpha) > 0} :
              \E h \in {IF raised THEN [f EXCEPT !.improved_alpha = TRUE, !.alpha = score] ELSE f},
                 table \in {IF raised
                              THEN record_principal_variation(srch.ttable, zobrist_key_of(f.node), f.mov, f.depth, score)
                              ELSE srch.ttable} :
                IF h.moves # <<>>
                  THEN srch' = [call_child(srch, table, [h EXCEPT !.mov = Head(h.moves), !.moves = Tail(h.moves)],
                                           Head(h.moves))
                                  EXCEPT !.cut_short = noted(srch, zobrist_key_of(f.node), raised)]
                  ELSE srch' = [return_score(srch,
                                             IF h.improved_alpha THEN table
                                               ELSE record_all(table, zobrist_key_of(h.node), h.depth, h.alpha),
                                             Score_step(h.alpha))
                                  EXCEPT !.cut_short = IF h.improved_alpha
                                                         THEN noted(srch, zobrist_key_of(f.node), raised)
                                                         ELSE @ \ {zobrist_key_of(f.node)}]
  /\ last' = Last("alpha_beta_loop", None, srch)
  /\ UNCHANGED <<pos, ply, panicked, fen, out, phase>>

\* search_depth after the root's alpha_beta: the root's table entry must
\* exist and hold a best move (the two expect calls), which is the result.
SearchDepthResult ==
  /\ srch.pc = "search_depth"
  /\ \E entry \in {query_copy(srch.ttable, zobrist_key_of(<<>>))} :
       IF entry.node = "Miss" \/ entry.best_move = None
         THEN srch' = [srch EXCEPT !.pc = "panic"]
         ELSE srch' = [srch EXCEPT !.pc = "search", !.result_move = entry.best_move, !.result_score = srch.ret]
  /\ last' = Last("search_depth", None, srch)
  /\ UNCHANGED <<pos, ply, panicked, fen, out, phase>>

\* search after search_depth: out of time it returns the current best move
\* and score, else the result becomes the current best and the loop goes on.
SearchPoll ==
  /\ srch.pc = "search"
  /\ IF out_of_time(srch)
       THEN srch' = [srch EXCEPT !.pc = "returned", !.best_move = srch.current_best_move,
                                 !.score = srch.current_best_score]
       ELSE srch' = next_depth([srch EXCEPT !.pv = get_pv(srch.ttable, <<>>, srch.depth),
                                            !.current_best_move = srch.result_move,
                                            !.current_best_score = srch.result_score,
                                            !.completed = [depth |-> srch.depth, best_move |-> srch.result_move,
                                                           score |-> srch.result_score]])
  /\ last' = Last("search_poll", None, srch)
  /\ UNCHANGED <<pos, ply, panicked, fen, out, phase>>

NextSearch ==
  \/ StartSearch
  \/ SearchFirstDepth
  \/ BudgetRunsOut
  \/ SearchReturns
  \/ AlphaBetaEnter
  \/ AlphaBetaHashMove
  \/ AlphaBetaPoll
  \/ AlphaBetaLoop
  \/ SearchDepthResult
  \/ SearchPoll

SpecSearch == InitSearch /\ [][NextSearch]_vars

\* C2: whenever the time budget runs out while a depth is being searched,
\* search returns normally, and the move and score it returns are those of the
\* last depth that was finished before the budget ran out.
C2_BudgetExhaustionReturnsLastCompletedDepth ==
  (srch.pc \in {"returned", "panic"} /\ srch.over)
    => /\ srch.pc = "returned"
       /\ srch.completed.depth > 0
            => (srch.best_move = srch.completed.best_move /\ srch.score = srch.completed.score)


\* ------------------------------------------------------------------ analysis and evaluation

\* adjacent_files: the files next to file f.
adjacent_files(f) == UNION {BB_FILE(g) : g \in {f - 1, f + 1} \cap (0 .. 7)}

doubled_pawns(p, color) ==
  UNION {IF Cardinality(pawns(p, color) \cap BB_FILE(f)) > 1 THEN pawns(p, color) \cap BB_FILE(f) ELSE {}
           : f \in 0 .. 7}

\* walk_rank: walking the ranks in the given order, the pawns of the current
\* file on the first rank that holds pawns of the current file or of the
\* adjacent files but not of both; none when the adjacent files come first.
walk_rank(ranks, current_file_pawns, adjacent_file_pawns) ==
  LET decisive == {i \in 1 .. Len(ranks) :
                     (BB_RANK(ranks[i]) \cap current_file_pawns = {})
                       # (BB_RANK(ranks[i]) \cap adjacent_file_pawns = {})}
  IN IF decisive = {} THEN {}
     ELSE BB_RANK(ranks[CHOOSE i \in decisive : \A j \in decisive : i <= j]) \cap current_file_pawns

backward_pawns(p, color) ==
  UNION {IF pawns(p, color) \cap BB_FILE(f) = {} THEN {}
           ELSE walk_rank(IF color = White THEN <<0, 1, 2, 3, 4, 5, 6, 7>> ELSE <<7, 6, 5, 4, 3, 2, 1, 0>>,
                          pawns(p, color) \cap BB_FILE(f), pawns(p, color) \cap adjacent_files(f))
           : f \in 0 .. 7}

isolated_pawns(p, color) ==
  UNION {IF pawns(p, color) \cap adjacent_files(f) = {} THEN pawns(p, color) \cap BB_FILE(f) ELSE {}
           : f \in 0 .. 7}

\* Analysis::mobility: the number of legal moves of color, counted after a
\* null move when color is not the side to move.
mobility(p, color) ==
  Cardinality(legal_moves(IF p.side_to_move # color THEN apply_move(p, Move_null).pos ELSE p))

\* The weights of the evaluator in tenths (the code's f32 weights times ten),
\* so that the evaluated score is an integer number of tenths.
KING_WEIGHT == 20000
QUEEN_WEIGHT == 90
ROOK_WEIGHT == 50
BISHOP_WEIGHT == 30
KNIGHT_WEIGHT == 30
PAWN_WEIGHT == 10
PAWN_FORMATION_WEIGHT == 5
MOBILITY_WEIGHT == 1

evaluate_metric(weight, func(_)) == weight * (func(White) - func(Black))

\* The sum at the end of evaluate, given the two mobilities.
weighted_sum(p, white_mobility, black_mobility) ==
  evaluate_metric(KING_WEIGHT, LAMBDA c : Cardinality(kings(p, c)))
    + evaluate_metric(QUEEN_WEIGHT, LAMBDA c : Cardinality(queens(p, c)))
    + evaluate_metric(ROOK_WEIGHT, LAMBDA c : Cardinality(rooks(p, c)))
    + evaluate_metric(BISHOP_WEIGHT, LAMBDA c : Cardinality(bishops(p, c)))
    + evaluate_metric(KNIGHT_WEIGHT, LAMBDA c : Cardinality(knights(p, c)))
    + evaluate_metric(PAWN_WEIGHT, LAMBDA c : Cardinality(pawns(p, c)))
    + evaluate_metric(PAWN_FORMATION_WEIGHT, LAMBDA c : Cardinality(isolated_pawns(p, c)))
    + evaluate_metric(PAWN_FORMATION_WEIGHT, LAMBDA c : Cardinality(backward_pawns(p, c)))
    + evaluate_metric(PAWN_FORMATION_WEIGHT, LAMBDA c : Cardinality(doubled_pawns(p, c)))
    + MOBILITY_WEIGHT * (white_mobility - black_mobility)

\* ShannonEvaluator::evaluate: White's mobility is looked at first, then
\* Black's, whoever is to move.
ShannonEvaluator_evaluate(p) ==
  IF mobility(p, White) = 0
    THEN (IF is_check(p, White) THEN Loss(0) ELSE Evaluated(0))
  ELSE IF mobility(p, Black) = 0
    THEN (IF is_check(p, Black) THEN Win(0) ELSE Evaluated(0))
  ELSE Evaluated(weighted_sum(p, mobility(p, White), mobility(p, Black)))


\* ------------------------------------------------------------------ evaluating positions

\* The positions given to the evaluator, before and after legal moves.
\* the mate of the evaluator's test white_mate_evaluation: 8/8/8/8/8/3k4/3q4/3K4 w - - 0 1
EvalFen1 ==
  <<"8", "/", "8", "/", "8", "/", "8", "/", "8", "/", "3", "k", "4", "/", "3", "q", "4", "/", "3", "K", "4", " ", "w", " ", "-", " ", "-", " ", "0", " ", "1">>
\* the mate of the evaluator's test black_mate_evaluation: 4k3/4Q3/4K3/8/8/8/8/8 b - - 0 1
EvalFen2 ==
  <<"4", "k", "3", "/", "4", "Q", "3", "/", "4", "K", "3", "/", "8", "/", "8", "/", "8", "/", "8", "/", "8", " ", "b", " ", "-", " ", "-", " ", "0", " ", "1">>
\* Black to move is stalemated: 7k/5Q2/6K1/8/8/8/8/8 b - - 0 1
EvalFen3 ==
  <<"7", "k", "/", "5", "Q", "2", "/", "6", "K", "1", "/", "8", "/", "8", "/", "8", "/", "8", "/", "8", " ", "b", " ", "-", " ", "-", " ", "0", " ", "1">>
\* Black to move, White's king has no square to go to: 7k/8/8/8/8/1q6/8/K7 b - - 0 1
EvalFen4 ==
  <<"7", "k", "/", "8", "/", "8", "/", "8", "/", "8", "/", "1", "q", "6", "/", "8", "/", "K", "7", " ", "b", " ", "-", " ", "-", " ", "0", " ", "1">>
\* doubled, isolated and backward pawns: 4k3/3p4/2p1p3/8/8/5P2/P4P2/4K3 w - - 0 1
EvalFen5 ==
  <<"4", "k", "3", "/", "3", "p", "4", "/", "2", "p", "1", "p", "3", "/", "8", "/", "8", "/", "5", "P", "2", "/", "P", "4", "P", "2", "/", "4", "K", "3", " ", "w", " ", "-", " ", "-", " ", "0", " ", "1">>
EvalFens == {EvalFen1, EvalFen2, EvalFen3, EvalFen4, EvalFen5}

InitEval ==
  /\ fen \in EvalFens
  /\ pos = from_fen(fen).pos
  /\ last = Last("from_fen", None, pos)
  /\ ply = 0
  /\ panicked = FALSE
  /\ out = <<>>
  /\ phase = "play"
  /\ srch = SearchIdle

\* ShannonEvaluator::evaluate(pos); out holds the score returned.
Evaluate ==
  /\ ~panicked
  /\ out' = <<ShannonEvaluator_evaluate(pos)>>
  /\ last' = Last("evaluate", None, pos)
  /\ UNCHANGED <<pos, ply, panicked, fen, phase, srch>>

NextEval == ApplyMove \/ Evaluate

SpecEval == InitEval /\ [][NextEval]_vars

\* C11: when the side to move has no legal move the evaluator returns the mate
\* score against that side if it is in check (Loss(0) for White, Win(0) for
\* Black) and Evaluated(0) if it is not; when the side to move has a legal move
\* the evaluator returns the weighted sum of material, pawn structure and
\* mobility.
C11_MateScoreOnlyForSideToMove ==
  last.op = "evaluate" =>
    IF legal_moves(pos) = {}
      THEN out[1] = (IF ~is_check(pos, pos.side_to_move) THEN Evaluated(0)
                     ELSE IF pos.side_to_move = White THEN Loss(0) ELSE Win(0))
      ELSE out[1] = Evaluated(weighted_sum(pos, mobility(pos, White), mobility(pos, Black)))


\* ------------------------------------------------------------------ recording in the table

\* The keys, moves and scores the record calls are made with; the depths are
\* 1 .. MaxDepth.
TableKeys == {<<>>, <<1>>}
TableScores == {Loss(0), Evaluated(1)}

\* latest is the history of the model: for every key, the entry of the last
\* record call made for it; recorded is the entry of the last call and
\* replaced the entry that the table held for its key before.
InitTable ==
  /\ fen = <<>>
  /\ pos = Position_new
  /\ last = Last("new", None, pos)
  /\ ply = 0
  /\ panicked = FALSE
  /\ out = <<>>
  /\ phase = "table"
  /\ srch = [pc |-> "table", ttable |-> <<>>, latest |-> <<>>, recorded |-> NoEntry, replaced |-> NoEntry]

recorded_as(s, table, entry) ==
  [s EXCEPT !.ttable = table, !.latest = (entry.zobrist_key :> entry) @@ @,
            !.recorded = entry, !.replaced = query_copy(s.ttable, entry.zobrist_key)]

RecordPrincipalVariation ==
  /\ \E key \in TableKeys, depth \in 1 .. MaxDepth, score \in TableScores :
       srch' = recorded_as(srch, record_principal_variation(srch.ttable, key, 1, depth, score),
                           TableEntry(key, 1, depth, "PrincipalVariation", score))
  /\ UNCHANGED <<pos, last, ply, panicked, fen, out, phase>>

RecordCut ==
  /\ \E key \in TableKeys, depth \in 1 .. MaxDepth, score \in TableScores :
       srch' = recorded_as(srch, record_cut(srch.ttable, key, 1, depth, score),
                           TableEntry(key, 1, depth, "Cut", score))
  /\ UNCHANGED <<pos, last, ply, panicked, fen, out, phase>>

RecordAll ==
  /\ \E key \in TableKeys, depth \in 1 .. MaxDepth, score \in TableScores :
       srch' = recorded_as(srch, record_all(srch.ttable, key, depth, score),
                           TableEntry(key, None, depth, "All", score))
  /\ UNCHANGED <<pos, last, ply, panicked, fen, out, phase>>

NextTable == RecordPrincipalVariation \/ RecordCut \/ RecordAll

SpecTable == InitTable /\ [][NextTable]_vars

\* C12: a query for a key returns exactly the entry of the last record call
\* made for that key (kind, score, depth and best move), whatever the table
\* held before and whatever its depth, and a miss when there was no such call;
\* every entry is kept under its own key, one entry per key.
C12_QueryReturnsLastRecorded ==
  /\ \A key \in TableKeys :
       query_copy(srch.ttable, key) = (IF key \in DOMAIN srch.latest THEN srch.latest[key] ELSE NoEntry)
  /\ \A key \in DOMAIN srch.ttable : srch.ttable[key].zobrist_key = key

\* A shallower entry was recorded over a deeper one of another kind and is
\* what a query returns.
C12_Witness ==
  /\ srch.replaced.node = "PrincipalVariation"
  /\ srch.recorded.node = "All"
  /\ srch.replaced.depth > srch.recorded.depth
  /\ query_copy(srch.ttable, srch.recorded.zobrist_key) = srch.recorded


\* ------------------------------------------------------------------ the hash from scratch

\* The table entries of what a position holds: its pieces, Black to move,
\* each castling right by its own flag, the file of its en-passant square.
present_constants(p) ==
  {square_hash(piece_at(p, sq).kind, piece_at(p, sq).color, sq) :
     sq \in p.boards_by_color[White] \cup p.boards_by_color[Black]}
    \cup (IF p.side_to_move = Black THEN {SIDE_TO_MOVE_INDEX} ELSE {})
    \cup (IF WHITE_KINGSIDE \in p.castle_status THEN {castle_hash(0)} ELSE {})
    \cup (IF WHITE_QUEENSIDE \in p.castle_status THEN {castle_hash(1)} ELSE {})
    \cup (IF BLACK_KINGSIDE \in p.castle_status THEN {castle_hash(2)} ELSE {})
    \cup (IF BLACK_QUEENSIDE \in p.castle_status THEN {castle_hash(3)} ELSE {})
    \cup (IF p.en_passant_square # None THEN {en_passant_hash(p.en_passant_square)} ELSE {})

\* C13: zobrist::hash(pos) is the XOR of exactly the constants of the pieces
\* on the board, of the side constant iff Black is to move, of each castling
\* right that pos holds and of the en-passant file iff there is an en-passant
\* square.
C13_FullHashOfPresentConstants == zobrist_hash_of(pos) = present_constants(pos)


\* ------------------------------------------------------------------ the null move and the clocks

C15_HalfmoveClock ==
  (last.op = "apply_move" /\ ~is_null(last.mov) /\ ~panicked) =>
    pos.halfmove_clock =
      IF is_capture(last.mov) \/ piece_at(last.pre, source(last.mov)).kind = Pawn
        THEN 0
        ELSE last.pre.halfmove_clock + 1

\* A pawn's quiet move resets a clock that had been counting.
C15_Witness ==
  /\ last.op = "apply_move" /\ ~panicked
  /\ is_quiet(last.mov)
  /\ piece_at(last.pre, source(last.mov)).kind = Pawn
  /\ last.pre.halfmove_clock > 0
  /\ pos.halfmove_clock = 0


\* C16: in every position that from_fen returned or that apply_move produced
\* without a panic, an en-passant square lies on the rank that a double pawn
\* push of the side not to move reaches: rank 3 when Black is to move, rank 6
\* when White is to move.
C16_EnPassantRank ==
  (phase \in {"play", "parsed", "rendered"} /\ ~panicked /\ pos.en_passant_square # None) =>
    rank(pos.en_passant_square) = (IF pos.side_to_move = Black THEN 2 ELSE 5)


\* ------------------------------------------------------------------ comparing scores

\* The largest number of moves to mate among the compared scores.
MaxMateMoves == 2

\* The scores compared: mates in 0 .. MaxMateMoves moves for either side and
\* evaluated scores around zero (the evaluator's sums are finite numbers).
ScoreInputs ==
  {Win(n) : n \in 0 .. MaxMateMoves} \cup {Loss(n) : n \in 0 .. MaxMateMoves}
    \cup {Evaluated(x) : x \in (0 - 1) .. 1}

\* out holds three scores a, b, c.
InitScore ==
  /\ fen = <<>>
  /\ pos = Position_new
  /\ last = Last("new", None, pos)
  /\ ply = 0
  /\ panicked = FALSE
  /\ out \in {<<a, b, c>> : a \in ScoreInputs, b \in ScoreInputs, c \in ScoreInputs}
  /\ phase = "scores"
  /\ srch = SearchIdle

\* a.cmp(&b), b.cmp(&a), b.cmp(&c) and a.cmp(&c), appended to out.
Compare ==
  /\ phase = "scores"
  /\ out' = out \o <<Score_cmp(out[1], out[2]), Score_cmp(out[2], out[1]),
                     Score_cmp(out[2], out[3]), Score_cmp(out[1], out[3])>>
  /\ phase' = "compared"
  /\ UNCHANGED <<pos, last, ply, panicked, fen, srch>>

NextScore == Compare

SpecScore == InitScore /\ [][NextScore]_vars

\* C17: the comparison of scores is a total order (total, antisymmetric,
\* transitive) with Win(n) > Win(n+1) > every Evaluated score > Loss(n+1) >
\* Loss(n) for all n.
C17_ScoreTotalOrder ==
  phase = "compared" =>
    LET a == out[1]
        b == out[2]
        ab == out[4]
        ba == out[5]
        bc == out[6]
        ac == out[7]
    IN /\ ab \in {0 - 1, 0, 1} /\ ba = 0 - ab
       /\ (ab = 0) <=> (a = b)
       /\ (ab >= 0 /\ bc >= 0) => ac >= 0
       /\ (a.tag = "Win" /\ b.tag = "Win" /\ b.v = a.v + 1) => ab = 1
       /\ (a.tag = "Win" /\ b.tag = "Evaluated") => ab = 1
       /\ (a.tag = "Evaluated" /\ b.tag = "Loss") => ab = 1
       /\ (a.tag = "Loss" /\ b.tag = "Loss" /\ a.v = b.v + 1) => ab = 1

\* A slower loss was compared with a faster loss and with an evaluated score.
C17_Witness ==
  /\ phase = "compared"
  /\ out[1] = Evaluated(1) /\ out[2] = Loss(1) /\ out[3] = Loss(0)
  /\ out[4] = 1 /\ out[6] = 1 /\ out[7] = 1


\* ------------------------------------------------------------------ moves as UCI text

\* Move::as_uci: the source square, the destination square and, for a
\* promotion, the lowercase letter of the promotion piece.
as_uci(mov) ==
  Square_chars(source(mov)) \o Square_chars(destination(mov))
    \o (IF is_promotion(mov)
          THEN <<CASE promotion_piece(mov) = Knight -> "n"
                   [] promotion_piece(mov) = Bishop -> "b"
                   [] promotion_piece(mov) = Rook -> "r"
                   [] promotion_piece(mov) = Queen -> "q">>
          ELSE <<>>)

\* The match on the promotion letter in move_from_uci: None without a fifth
\* character (written "" here) or with one that is not n, b, r or q.
promotion_kind(maybe_promotion_piece) ==
  CASE maybe_promotion_piece = "n" -> Knight
    [] maybe_promotion_piece = "b" -> Bishop
    [] maybe_promotion_piece = "r" -> Rook
    [] maybe_promotion_piece = "q" -> Queen
    [] OTHER -> None

\* Step 1 of move_from_uci, the moving piece is a pawn: double push from the
\* start rank, promotion capture, en passant or capture on an attacked
\* square, promotion on the promotion rank, quiet otherwise.
pawn_move_from_uci(p, source_sq, dest, maybe_promotion_piece) ==
  LET white == p.side_to_move = White
      pawn_dir == IF white THEN North ELSE South
      promo_rank == IF white THEN BB_RANK_8 ELSE BB_RANK_1
      start_rank == IF white THEN BB_RANK(1) ELSE BB_RANK(6)
      kind == promotion_kind(maybe_promotion_piece)
  IN IF source_sq \in start_rank /\ towards(towards(source_sq, pawn_dir), pawn_dir) = dest
       THEN Move_double_pawn_push(source_sq, dest)
     ELSE IF dest \in pawn_attacks(source_sq, p.side_to_move)
       THEN IF dest \in promo_rank
              THEN IF kind = None THEN None
                   ELSE Move_promotion_capture(source_sq, dest, kind)
            ELSE IF dest = p.en_passant_square
              THEN Move_en_passant(source_sq, dest)
              ELSE Move_capture(source_sq, dest)
     ELSE IF dest \in promo_rank
       THEN IF kind = None THEN None ELSE Move_promotion(source_sq, dest, kind)
     ELSE Move_quiet(source_sq, dest)

\* Step 2 of move_from_uci, the moving piece is a king: a castle from the
\* king's start square to G or C of its rank, a capture of the piece on the
\* destination, quiet otherwise.
king_move_from_uci(p, source_sq, dest) ==
  LET white == p.side_to_move = White
      kingside_rook_adjacent == IF white THEN G1 ELSE G8
      queenside_rook_adjacent == IF white THEN C1 ELSE C8
      king_start == IF white THEN E1 ELSE E8
  IN IF king_start = source_sq /\ kingside_rook_adjacent = dest
       THEN Move_kingside_castle(source_sq, dest)
     ELSE IF king_start = source_sq /\ queenside_rook_adjacent = dest
       THEN Move_queenside_castle(source_sq, dest)
     ELSE IF piece_at(p, dest) # NoPiece
       THEN Move_capture(source_sq, dest)
     ELSE Move_quiet(source_sq, dest)

\* Position::move_from_uci: None for a text shorter than four characters, one
\* that names no square or one that starts on an empty square; the null move
\* for 0000; otherwise the move kind is read off the position.
move_from_uci(p, move_str) ==
  IF Len(move_str) < 4 THEN None
  ELSE IF move_str = <<"0", "0", "0", "0">> THEN Move_null
  ELSE IF None \in {File_try_from(move_str[1]), Rank_try_from(move_str[2]),
                    File_try_from(move_str[3]), Rank_try_from(move_str[4])}
    THEN None
  ELSE LET source_sq == of(Rank_try_from(move_str[2]), File_try_from(move_str[1]))
           dest == of(Rank_try_from(move_str[4]), File_try_from(move_str[3]))
           maybe_promotion_piece == IF Len(move_str) = 5 THEN move_str[5] ELSE ""
           moving_piece == piece_at(p, source_sq)
       IN IF moving_piece = NoPiece THEN None
          ELSE IF moving_piece.kind = Pawn
            THEN pawn_move_from_uci(p, source_sq, dest, maybe_promotion_piece)
          ELSE IF moving_piece.kind = King
            THEN king_move_from_uci(p, source_sq, dest)
          ELSE IF piece_at(p, dest) # NoPiece
            THEN Move_capture(source_sq, dest)
          ELSE Move_quiet(source_sq, dest)

\* The positions of the move_from_uci tests (uci_sliding_moves, uci_pawn_moves,
\* uci_king_moves, uci_promotion), one where Black promotes and one that
\* from_fen accepts with castling rights for a king that is not on E1.
\* 8/3q4/8/8/8/3R4/8/8 w - - 0 1
UciFen1 ==
  <<"8", "/", "3", "q", "4", "/", "8", "/", "8", "/", "8", "/", "3", "R", "4", "/", "8", "/", "8", " ", "w", " ", "-", " ", "-", " ", "0", " ", "1">>
\* 8/8/8/8/8/4p3/3P4/8 w - c3 0 1
UciFen2 ==
  <<"8", "/", "8", "/", "8", "/", "8", "/", "8", "/", "4", "p", "3", "/", "3", "P", "4", "/", "8", " ", "w", " ", "-", " ", "c", "3", " ", "0", " ", "1">>
\* 8/8/8/8/8/8/3r4/R3K2R w - - 0 1
UciFen3 ==
  <<"8", "/", "8", "/", "8", "/", "8", "/", "8", "/", "8", "/", "3", "r", "4", "/", "R", "3", "K", "2", "R", " ", "w", " ", "-", " ", "-", " ", "0", " ", "1">>
\* 5n2/4P3/8/8/8/8/8/8 w - - 0 1
UciFen4 ==
  <<"5", "n", "2", "/", "4", "P", "3", "/", "8", "/", "8", "/", "8", "/", "8", "/", "8", "/", "8", " ", "w", " ", "-", " ", "-", " ", "0", " ", "1">>
\* 4k3/8/8/8/8/8/6p1/4K2R b K - 0 1
UciFen5 ==
  <<"4", "k", "3", "/", "8", "/", "8", "/", "8", "/", "8", "/", "8", "/", "6", "p", "1", "/", "4", "K", "2", "R", " ", "b", " ", "K", " ", "-", " ", "0", " ", "1">>
\* 4k3/8/8/8/8/8/8/R2K3R w KQ - 0 1
UciFen6 ==
  <<"4", "k", "3", "/", "8", "/", "8", "/", "8", "/", "8", "/", "8", "/", "8", "/", "R", "2", "K", "3", "R", " ", "w", " ", "K", "Q", " ", "-", " ", "0", " ", "1">>
UciFens == {UciFen1, UciFen2, UciFen3, UciFen4, UciFen5, UciFen6}

InitUci ==
  /\ fen \in StartFens \cup UciFens
  /\ pos = from_fen(fen).pos
  /\ last = Last("from_fen", None, pos)
  /\ ply = 0
  /\ panicked = FALSE
  /\ out = <<>>
  /\ phase = "play"
  /\ srch = SearchIdle

\* pos.move_from_uci(mov.as_uci()) for a move the generator emits for pos;
\* out holds the text and the move read back.
MoveFromUci ==
  /\ ~panicked
  /\ \E mov \in generate_moves(pos) :
       /\ out' = <<as_uci(mov), move_from_uci(pos, as_uci(mov))>>
       /\ last' = Last("move_from_uci", mov, pos)
  /\ UNCHANGED <<pos, ply, panicked, fen, phase, srch>>

NextUci == MoveFromUci

SpecUci == InitUci /\ [][NextUci]_vars

\* C18: move_from_uci applied to the UCI text of a move that generate_moves
\* emits for the position returns that move, with its kind: the text is the
\* source square, the destination square and the promotion letter if any.
C18_UciRoundTrip ==
  last.op = "move_from_uci" =>
    /\ out[1] = Square_chars(source(last.mov)) \o Square_chars(destination(last.mov))
                  \o (IF is_promotion(last.mov) THEN <<out[1][5]>> ELSE <<>>)
    /\ out[2] = last.mov


\* ------------------------------------------------------------------ perft

RECURSIVE perft(_, _, _)
RECURSIVE sum_perft(_, _, _, _)

\* The closure perft maps over the generated moves, with every generated move
\* counted: no legality test and no check test.
perft_move_unfiltered(p, mov, depth, use_legality_test) ==
  perft(apply_move(p, mov).pos, depth - 1, use_legality_test)

\* The closure perft maps over the generated moves: the leaves below mov, 0
\* for a move that leaves the mover in check. With the legality test the
\* move is tested first and then applied to a clone; without it the move is
\* applied and the mover's king is tested in the new position.
perft_move(p, mov, depth, use_legality_test) ==
  IF use_legality_test
    THEN IF is_legal_given_pseudolegal(p, mov)
           THEN perft(apply_move(p, mov).pos, depth - 1, use_legality_test)
           ELSE 0
    ELSE IF ~is_check(apply_move(p, mov).pos, p.side_to_move)
           THEN perft(apply_move(p, mov).pos, depth - 1, use_legality_test)
           ELSE 0

\* .map(...).sum() over the moves; the sum does not depend on the order in
\* which the parallel iterator takes them.
sum_perft(p, moves, depth, use_legality_test) ==
  IF moves = {}
    THEN 0
    ELSE perft_move(p, CHOOSE m \in moves : \A n \in moves : m <= n, depth, use_legality_test)
           + sum_perft(p, moves \ {CHOOSE m \in moves : \A n \in moves : m <= n},
                       depth, use_legality_test)

\* perft(pos, depth, use_legality_test): 1 at depth 0, otherwise the sum over
\* the generated moves.
perft(p, depth, use_legality_test) ==
  IF depth = 0 THEN 1 ELSE sum_perft(p, generate_moves(p), depth, use_legality_test)

\* The positions of the perft tests.
\* position_3: 8/2p5/3p4/KP5r/1R3p1k/8/4P1P1/8 w - - 0 1
PerftFen3 ==
  <<"8", "/", "2", "p", "5", "/", "3", "p", "4", "/", "K", "P", "5", "r", "/", "1", "R", "3", "p", "1", "k", "/", "8", "/", "4", "P", "1", "P", "1", "/", "8", " ", "w", " ", "-", " ", "-", " ", "0", " ", "1">>
\* position_4: r2q1rk1/pP1p2pp/Q4n2/bbp1p3/Np6/1B3NBn/pPPP1PPP/R3K2R b KQ - 0 1
PerftFen4 ==
  <<"r", "2", "q", "1", "r", "k", "1", "/", "p", "P", "1", "p", "2", "p", "p", "/", "Q", "4", "n", "2", "/", "b", "b", "p", "1", "p", "3", "/", "N", "p", "6", "/", "1", "B", "3", "N", "B", "n", "/", "p", "P", "P", "P", "1", "P", "P", "P", "/", "R", "3", "K", "2", "R", " ", "b", " ", "K", "Q", " ", "-", " ", "0", " ", "1">>
\* position_5: rnbq1k1r/pp1Pbppp/2p5/8/2B5/8/PPP1NnPP/RNBQK2R w KQ - 1 8
PerftFen5 ==
  <<"r", "n", "b", "q", "1", "k", "1", "r", "/", "p", "p", "1", "P", "b", "p", "p", "p", "/", "2", "p", "5", "/", "8", "/", "2", "B", "5", "/", "8", "/", "P", "P", "P", "1", "N", "n", "P", "P", "/", "R", "N", "B", "Q", "K", "2", "R", " ", "w", " ", "K", "Q", " ", "-", " ", "1", " ", "8">>
\* kiwipete: r3k2r/p1ppqpb1/bn2pnp1/3PN3/1p2P3/2N2Q1p/PPPBBPPP/R3K2R w KQkq - 0 1
PerftKiwipete ==
  <<"r", "3", "k", "2", "r", "/", "p", "1", "p", "p", "q", "p", "b", "1", "/", "b", "n", "2", "p", "n", "p", "1", "/", "3", "P", "N", "3", "/", "1", "p", "2", "P", "3", "/", "2", "N", "2", "Q", "1", "p", "/", "P", "P", "P", "B", "B", "P", "P", "P", "/", "R", "3", "K", "2", "R", " ", "w", " ", "K", "Q", "k", "q", " ", "-", " ", "0", " ", "1">>
\* start: rnbqkbnr/pppppppp/8/8/8/8/PPPPPPPP/RNBQKBNR w KQkq - 0 1
PerftStart ==
  <<"r", "n", "b", "q", "k", "b", "n", "r", "/", "p", "p", "p", "p", "p", "p", "p", "p", "/", "8", "/", "8", "/", "8", "/", "8", "/", "P", "P", "P", "P", "P", "P", "P", "P", "/", "R", "N", "B", "Q", "K", "B", "N", "R", " ", "w", " ", "K", "Q", "k", "q", " ", "-", " ", "0", " ", "1">>

\* The rows of perft_tests that are run: position, depth and leaf count.
PerftRow(f, depth, count) == [fen |-> f, depth |-> depth, count |-> count]
PerftReference ==
  {PerftRow(PerftStart, 1, 20), PerftRow(PerftStart, 2, 400),
   PerftRow(PerftStart, 3, 8902), PerftRow(PerftStart, 4, 197281),
   PerftRow(PerftKiwipete, 1, 48), PerftRow(PerftKiwipete, 2, 2039),
   PerftRow(PerftKiwipete, 3, 97862),
   PerftRow(PerftFen3, 1, 14), PerftRow(PerftFen3, 2, 191), PerftRow(PerftFen3, 3, 2812),
   PerftRow(PerftFen4, 1, 6), PerftRow(PerftFen4, 2, 264), PerftRow(PerftFen4, 3, 9467),
   PerftRow(PerftFen5, 1, 44), PerftRow(PerftFen5, 2, 1486)}

\* One call of perft in progress: its position, the generated moves not yet
\* mapped, the sum so far and its depth.
PerftFrame(p, depth) == [pos |-> p, moves |-> generate_moves(p), sum |-> 0, depth |-> depth]

InitPerft ==
  /\ fen \in {row.fen : row \in PerftReference}
  /\ pos = from_fen(fen).pos
  /\ last = Last("from_fen", None, pos)
  /\ ply = 0
  /\ panicked = FALSE
  /\ out = <<>>
  /\ phase = "perft"
  /\ srch = SearchIdle

\* perft(&pos, depth, true) is called with a depth of the reference table.
PerftCall ==
  /\ srch = SearchIdle
  /\ \E row \in PerftReference :
       /\ row.fen = fen
       /\ srch' = [pc |-> "perft", depth |-> row.depth,
                   stack |-> <<PerftFrame(pos, row.depth)>>]
  /\ UNCHANGED <<pos, last, ply, panicked, fen, out, phase>>

\* The innermost call maps its next move: a legal move with more than one
\* ply left below it starts the recursive call, any other move adds its leaf
\* count to the sum.
PerftMap ==
  /\ srch.pc = "perft"
  /\ \E f \in {srch.stack[Len(srch.stack)]} :
       /\ f.moves # {}
       /\ \E mov \in {CHOOSE m \in f.moves : \A n \in f.moves : m <= n} :
            IF f.depth > 2 /\ is_legal_given_pseudolegal(f.pos, mov)
              THEN srch' = [srch EXCEPT
                     !.stack = Append([@ EXCEPT ![Len(@)].moves = @ \ {mov}],
                                      PerftFrame(apply_move(f.pos, mov).pos, f.depth - 1))]
              ELSE srch' = [srch EXCEPT
                     !.stack = [@ EXCEPT ![Len(@)].moves = @ \ {mov},
                                         ![Len(@)].sum = @ + perft_move(f.pos, mov, f.depth, TRUE)]]
  /\ UNCHANGED <<pos, last, ply, panicked, fen, out, phase>>

\* The innermost call has mapped every move and returns its sum: to the
\* caller's sum, or as the result of the outermost call.
PerftReturn ==
  /\ srch.pc = "perft"
  /\ \E f \in {srch.stack[Len(srch.stack)]} :
       /\ f.moves = {}
       /\ IF Len(srch.stack) > 1
            THEN /\ srch' = [srch EXCEPT
                       !.stack = [SubSeq(@, 1, Len(@) - 1) EXCEPT ![Len(@) - 1].sum = @ + f.sum]]
                 /\ out' = out
            ELSE /\ srch' = [srch EXCEPT !.pc = "returned", !.stack = <<>>]
                 /\ out' = <<f.sum>>
  /\ UNCHANGED <<pos, last, ply, panicked, fen, phase>>

NextPerft == PerftCall \/ PerftMap \/ PerftReturn

SpecPerft == InitPerft /\ [][NextPerft]_vars

MaxRequests == 2

\* initialize(): the search thread is spawned and has not run yet; the
\* statics hold their initial values and no search has been requested.
ThreadsIdle ==
  [pc |-> "threads",
   search |-> "start",          \* where search_thread_thunk stands
   aux |-> "idle",              \* where the calling thread stands
   RUNNING_THREADS |-> 0,
   WORK_MUTEX |-> "free", RESULTS_MUTEX |-> "free", ALL_THREADS_DONE_MUTEX |-> "free",
   CANCEL |-> "free",           \* the RwLock: free, read by the search thread, written by the caller
   work |-> 0,                  \* the request stored under WORK_MUTEX
   request |-> 0,               \* the search thread's clone of it
   results |-> <<>>,
   requests |-> 0]

InitThreads ==
  /\ fen = <<>>
  /\ pos = Position_new
  /\ last = Last("new", None, pos)
  /\ ply = 0
  /\ panicked = FALSE
  /\ out = <<>>
  /\ phase = "threads"
  /\ srch = ThreadsIdle

\* One step of a thread: the fields of srch it writes.
thread_step(next) ==
  /\ srch.pc = "threads"
  /\ srch' = next
  /\ UNCHANGED <<pos, last, ply, panicked, fen, out, phase>>

\* search_thread_thunk, before the loop: RUNNING_THREADS.fetch_add(1).
ThunkStart ==
  /\ srch.search = "start"
  /\ thread_step([srch EXCEPT !.search = "top", !.RUNNING_THREADS = @ + 1])

\* Top of the loop: WORK_MUTEX.lock().
ThunkLockWork ==
  /\ srch.search = "top"
  /\ srch.WORK_MUTEX = "free"
  /\ thread_step([srch EXCEPT !.search = "fetch_sub", !.WORK_MUTEX = "search"])

\* RUNNING_THREADS.fetch_sub(1) == 1 sends the last thread to wake the caller.
ThunkFetchSub ==
  /\ srch.search = "fetch_sub"
  /\ thread_step([srch EXCEPT !.search = IF srch.RUNNING_THREADS = 1 THEN "done_lock" ELSE "wait",
                              !.RUNNING_THREADS = @ - 1])

\* ALL_THREADS_DONE_MUTEX.lock().
ThunkLockDone ==
  /\ srch.search = "done_lock"
  /\ srch.ALL_THREADS_DONE_MUTEX = "free"
  /\ thread_step([srch EXCEPT !.search = "notify", !.ALL_THREADS_DONE_MUTEX = "search"])

\* ALL_THREADS_DONE_CONDVAR.notify_all() wakes the caller if it is waiting;
\* then the guard is dropped.
ThunkNotifyDone ==
  /\ srch.search = "notify"
  /\ thread_step([srch EXCEPT !.search = "wait", !.ALL_THREADS_DONE_MUTEX = "free",
                              !.aux = IF @ = "rr_waiting" THEN "rr_woken" ELSE @])

\* WORK_CONDVAR.wait(&mut lock): the mutex is released and the thread sleeps.
ThunkWaitWork ==
  /\ srch.search = "wait"
  /\ thread_step([srch EXCEPT !.search = "waiting", !.WORK_MUTEX = "free"])

\* The notified thread takes WORK_MUTEX again and wait returns.
ThunkWoken ==
  /\ srch.search = "woken"
  /\ srch.WORK_MUTEX = "free"
  /\ thread_step([srch EXCEPT !.search = "fetch_add", !.WORK_MUTEX = "search"])

\* RUNNING_THREADS.fetch_add(1); lock.clone(); the guard is dropped.
ThunkFetchAdd ==
  /\ srch.search = "fetch_add"
  /\ thread_step([srch EXCEPT !.search = "cancel_read", !.RUNNING_THREADS = @ + 1,
                              !.request = srch.work, !.WORK_MUTEX = "free"])

\* let cts = CANCEL.read(): the read guard lives to the end of the loop body.
ThunkReadCancel ==
  /\ srch.search = "cancel_read"
  /\ srch.CANCEL = "free"
  /\ thread_step([srch EXCEPT !.search = "search", !.CANCEL = "search"])

\* search::search(&pos, request.depth, token) runs and returns.
ThunkSearch ==
  /\ srch.search = "search"
  /\ thread_step([srch EXCEPT !.search = "results_lock"])

\* RESULTS_MUTEX.lock().
ThunkLockResults ==
  /\ srch.search = "results_lock"
  /\ srch.RESULTS_MUTEX = "free"
  /\ thread_step([srch EXCEPT !.search = "push", !.RESULTS_MUTEX = "search"])

\* results.push((score, mov)); the guards on the results and on CANCEL are
\* dropped at the end of the loop body.
ThunkPush ==
  /\ srch.search = "push"
  /\ thread_step([srch EXCEPT !.search = "top", !.RESULTS_MUTEX = "free", !.CANCEL = "free",
                              !.results = Append(@, srch.request)])

\* request_search(req) is called, by a caller that is idle or that has not
\* asked for the results of its last request yet: WORK_MUTEX.lock().
RequestSearchLockWork ==
  /\ srch.aux \in {"idle", "rs_returned"}
  /\ srch.requests < MaxRequests
  /\ srch.WORK_MUTEX = "free"
  /\ thread_step([srch EXCEPT !.aux = "rs_results_lock", !.WORK_MUTEX = "aux",
                              !.requests = @ + 1])

\* RESULTS_MUTEX.lock(); *work = req; results.clear().
RequestSearchLockResults ==
  /\ srch.aux = "rs_results_lock"
  /\ srch.RESULTS_MUTEX = "free"
  /\ thread_step([srch EXCEPT !.aux = "rs_cancel", !.RESULTS_MUTEX = "aux",
                              !.work = srch.requests, !.results = <<>>])

\* *CANCEL.write() = CancellationTokenSource::new(): the write lock is taken
\* when no reader holds the lock, and dropped with the statement.
RequestSearchWriteCancel ==
  /\ srch.aux = "rs_cancel"
  /\ srch.CANCEL = "free"
  /\ thread_step([srch EXCEPT !.aux = "rs_publish"])

\* WORK_CONDVAR.notify_all() wakes the search thread if it is waiting; both
\* guards are dropped.
RequestSearchPublish ==
  /\ srch.aux = "rs_publish"
  /\ thread_step([srch EXCEPT !.aux = "rs_spin",
                              !.search = IF @ = "waiting" THEN "woken" ELSE @,
                              !.WORK_MUTEX = "free", !.RESULTS_MUTEX = "free"])

\* while RUNNING_THREADS == 0 {}: request_search returns once a thread runs.
RequestSearchSpin ==
  /\ srch.aux = "rs_spin"
  /\ srch.RUNNING_THREADS # 0
  /\ thread_step([srch EXCEPT !.aux = "rs_returned"])

\* request_results() is called.
RequestResultsCall ==
  /\ srch.aux = "rs_returned"
  /\ thread_step([srch EXCEPT !.aux = "rr_check"])

\* request_results, the loop test: while RUNNING_THREADS > 0.
RequestResultsCheck ==
  /\ srch.aux = "rr_check"
  /\ thread_step([srch EXCEPT !.aux = IF srch.RUNNING_THREADS > 0 THEN "rr_lock"
                                      ELSE "rr_results_lock"])

\* ALL_THREADS_DONE_MUTEX.lock().
RequestResultsLockDone ==
  /\ srch.aux = "rr_lock"
  /\ srch.ALL_THREADS_DONE_MUTEX = "free"
  /\ thread_step([srch EXCEPT !.aux = "rr_wait", !.ALL_THREADS_DONE_MUTEX = "aux"])

\* ALL_THREADS_DONE_CONDVAR.wait(&mut lock): the mutex is released and the
\* caller sleeps.
RequestResultsWait ==
  /\ srch.aux = "rr_wait"
  /\ thread_step([srch EXCEPT !.aux = "rr_waiting", !.ALL_THREADS_DONE_MUTEX = "free"])

\* The notified caller takes the mutex again, wait returns and the guard is
\* dropped at the end of the loop body.
RequestResultsWoken ==
  /\ srch.aux = "rr_woken"
  /\ srch.ALL_THREADS_DONE_MUTEX = "free"
  /\ thread_step([srch EXCEPT !.aux = "rr_check"])

\* RESULTS_MUTEX.lock().
RequestResultsLockResults ==
  /\ srch.aux = "rr_results_lock"
  /\ srch.RESULTS_MUTEX = "free"
  /\ thread_step([srch EXCEPT !.aux = "rr_max", !.RESULTS_MUTEX = "aux"])

\* The results are read and request_results returns; out holds them.
RequestResultsReturn ==
  /\ srch.pc = "threads"
  /\ srch.aux = "rr_max"
  /\ srch' = [srch EXCEPT !.aux = "idle", !.RESULTS_MUTEX = "free"]
  /\ out' = srch.results
  /\ UNCHANGED <<pos, last, ply, panicked, fen, phase>>

search_thread_thunk ==
  \/ ThunkStart \/ ThunkLockWork \/ ThunkFetchSub \/ ThunkLockDone \/ ThunkNotifyDone
  \/ ThunkWaitWork \/ ThunkWoken \/ ThunkFetchAdd \/ ThunkReadCancel \/ ThunkSearch
  \/ ThunkLockResults \/ ThunkPush

aux_thread ==
  \/ RequestSearchLockWork \/ RequestSearchLockResults \/ RequestSearchWriteCancel
  \/ RequestSearchPublish \/ RequestSearchSpin \/ RequestResultsCall
  \/ RequestResultsCheck \/ RequestResultsLockDone
  \/ RequestResultsWait \/ RequestResultsWoken \/ RequestResultsLockResults
  \/ RequestResultsReturn

NextThreads == search_thread_thunk \/ aux_thread

SpecThreads == InitThreads /\ [][NextThreads]_vars

\* Both threads are scheduled: a thread that can take a step eventually does.
SpecThreadsFair ==
  SpecThreads /\ WF_vars(search_thread_thunk) /\ WF_vars(aux_thread)

\* C20: after request_search has returned, a call to request_results
\* eventually returns, whatever the interleaving of the caller and the search
\* thread.
C20_RequestResultsReturns ==
  (srch.aux = "rr_check") ~> (srch.aux = "idle")


\* ------------------------------------------------------------------ castling rights in play

\* Play by legal moves alone, without the null move.
NextLegal == ApplyMove

SpecLegal == Init /\ [][NextLegal]_vars

\* C28: in every position reached by legal moves, a side that holds a castling
\* right has its king on its start square (E1/E8) and a rook of its own on the
\* rook start square of that wing (H1/H8 kingside, A1/A8 queenside); and every
\* castle the generator emits is applied by apply_move without a panic.
C28_CastleRightsKeepHomeSquares ==
  /\ ~panicked =>
       \A color \in COLORS :
         /\ can_castle_kingside(pos, color) =>
              /\ piece_at(pos, IF color = White THEN E1 ELSE E8) = Piece(King, color)
              /\ piece_at(pos, kingside_rook(color)) = Piece(Rook, color)
         /\ can_castle_queenside(pos, color) =>
              /\ piece_at(pos, IF color = White THEN E1 ELSE E8) = Piece(King, color)
              /\ piece_at(pos, queenside_rook(color)) = Piece(Rook, color)
  /\ (last.op = "apply_move" /\ is_castle(last.mov)) => ~panicked

\* The king has stepped off its start square while its side held both rights,
\* and holds none afterwards.
C28_Witness ==
  /\ last.op = "apply_move"
  /\ ~panicked
  /\ ~is_castle(last.mov)
  /\ piece_at(last.pre, source(last.mov)) = Piece(King, last.pre.side_to_move)
  /\ can_castle_kingside(last.pre, last.pre.side_to_move)
  /\ can_castle_queenside(last.pre, last.pre.side_to_move)
  /\ ~can_castle_kingside(pos, last.pre.side_to_move)
  /\ ~can_castle_queenside(pos, last.pre.side_to_move)


\* C29: request_results returns only after the search thread has pushed the
\* result of the search that the preceding request_search asked for: what it
\* returns is that result, never the placeholder it computes from an empty
\* result list.
C29_ResultsOfTheRequestedSearch ==
  (srch.pc = "threads" /\ srch.aux = "idle" /\ srch.requests > 0)
    => out = <<srch.requests>>


\* C30: a request_search made while the search thread runs an earlier search
\* never deadlocks: the caller never holds the result list and waits for the
\* cancellation source while the search thread holds the cancellation source
\* and waits for the result list.
C30_NoLockCycle ==
  ~(/\ srch.pc = "threads"
    /\ srch.aux = "rs_cancel" /\ srch.RESULTS_MUTEX = "aux"
    /\ srch.search = "results_lock" /\ srch.CANCEL = "search")


\* ------------------------------------------------------------------ the steps of alpha_beta

\* The activation of alpha_beta that made the last step, as it stood before
\* the step, and the table entry of its position at that time.
stepped == top(last.pre)
entry_before == query_copy(last.pre.ttable, zobrist_key_of(stepped.node))

\* The last step ended the activation: alpha_beta returned.
step_returned == Len(srch.stack) < Len(last.pre.stack)

\* The last step called alpha_beta for the position after mov.
step_called(mov) ==
  /\ Len(srch.stack) = Len(last.pre.stack) + 1
  /\ top(srch).node = child_of(stepped.node, mov)
  /\ top(srch).depth = stepped.depth - 1

\* C21: alpha_beta at depth d > 0 returns from the table consultation, without
\* searching a move, only with an entry of depth >= d, and then with
\* s.step() for PrincipalVariation(s), with beta.step() for Cut(s) and
\* s >= beta, with alpha.step() for All(s) and s <= alpha; with an entry of
\* depth < d it does not return, and calls itself for the entry's best move
\* first when that move is legal.
C21_TableCutoffRule ==
  (last.op = "alpha_beta_enter" /\ stepped.depth > 0)
    => /\ step_returned
            => /\ entry_before.node # "Miss"
               /\ entry_before.depth >= stepped.depth
               /\ entry_before.node = "PrincipalVariation" => srch.ret = Score_step(entry_before.score)
               /\ entry_before.node = "Cut"
                    => /\ Score_cmp(entry_before.score, stepped.beta) >= 0
                       /\ srch.ret = Score_step(stepped.beta)
               /\ entry_before.node = "All"
                    => /\ Score_cmp(entry_before.score, stepped.alpha) <= 0
                       /\ srch.ret = Score_step(stepped.alpha)
       /\ (entry_before.node # "Miss" /\ entry_before.depth < stepped.depth)
            => /\ ~step_returned
               /\ node_is_legal(last.pre.game, stepped.node, entry_before.best_move)
                    => step_called(entry_before.best_move)


\* C22: when search has returned, no table entry holds a score that an
\* activation of alpha_beta returned because it ran out of time: the scores
\* of nodes whose search was cut short are not left in the table.
C22_CutShortScoresDiscarded ==
  srch.pc = "returned" => srch.cut_short = {}


\* C23: a search with max_depth >= 1 of a position that has a legal move
\* returns normally, whatever the budget and the earlier searches of the
\* Searcher, and the best move it returns is a legal move of the position.
C23_SearchReturnsLegalMove ==
  (srch.pc \in {"returned", "panic"} /\ srch.max_depth >= 1
     /\ ordered_legal_moves(srch.game, <<>>) # <<>>)
    => /\ srch.pc = "returned"
       /\ node_is_legal(srch.game, <<>>, srch.best_move)


\* C24: when the table entry of the position has a best move that is not
\* legal in the position, the table consultation of alpha_beta gives no
\* cutoff and no hash move is searched: the activation goes on to its
\* out_of_time test without a call of apply_move.
C24_IllegalHashMoveNotTrusted ==
  (/\ last.op = "alpha_beta_enter" /\ stepped.depth > 0
   /\ entry_before.best_move # None
   /\ ~node_is_legal(last.pre.game, stepped.node, entry_before.best_move))
    => /\ Len(srch.stack) = Len(last.pre.stack)
       /\ top(srch).pc = "poll"
       /\ top(srch).hash_move = None

\* The position has no legal move, and its key holds a principal variation
\* entry of another position, deep enough for a cutoff, with a move of that
\* position: the entry is not used.
C24_Witness ==
  /\ last.op = "alpha_beta_enter" /\ stepped.depth > 0
  /\ entry_before.node = "PrincipalVariation" /\ entry_before.depth >= stepped.depth
  /\ entry_before.best_move \in {1, 2}
  /\ ordered_legal_moves(last.pre.game, stepped.node) = <<>>
  /\ top(srch).pc = "poll"


\* C25: the principal variation read from the table for depth d has at most d
\* moves, and each of them is a legal move of the position reached by the
\* moves before it.
C25_PvIsLegal ==
  (srch.pc \notin {"idle", "new"} /\ srch.completed.depth > 0)
    => /\ Len(srch.pv) <= srch.completed.depth
       /\ \A i \in 1 .. Len(srch.pv) :
            node_is_legal(srch.game, SubSeq(srch.pv, 1, i - 1), srch.pv[i])


\* C26: once the budget is exceeded, search starts no new depth, the first
\* included, and no activation of alpha_beta calls itself for a further move.
C26_NothingStartedAfterBudget ==
  (last.op \in {"search", "search_poll", "alpha_beta_enter", "alpha_beta_hash", "alpha_beta_poll",
                "alpha_beta_loop"}
     /\ last.pre.over)
    => /\ srch.depth = last.pre.depth
       /\ Len(srch.stack) <= Len(last.pre.stack)


\* The table entry of the position of the activation that made the last step,
\* after the step.
entry_after == query_copy(srch.ttable, zobrist_key_of(stepped.node))

\* The score that the call before the last step returned to the activation.
score_before == Score_neg(last.pre.ret)

C27_WitnessRaised ==
  /\ last.op = "alpha_beta_loop" /\ step_returned
  /\ stepped.improved_alpha /\ stepped.hash_move # None
  /\ Score_cmp(score_before, stepped.alpha) > 0 /\ Score_cmp(score_before, stepped.beta) < 0
  /\ entry_after.node = "PrincipalVariation" /\ entry_after.best_move = stepped.mov

====
